---- MODULE Spec2Model ----
(***************************************************************************)
(* Model of the command/flag parsing engine of pydeepseek                  *)
(* (src/src/deepseek/cli_parser.py), with the two other arity checkers of  *)
(* the repository (utils.py, validate.py), the value parsers of utils.py   *)
(* and validate.py, the Parser over several commands and the variables of  *)
(* the CLI (cli.py).                                                       *)
(*                                                                         *)
(* A token is a Python str, modelled as a sequence of one-character        *)
(* strings, so that word[0], word[1:] and the comparison with "--" are     *)
(* computed as the code computes them.  Python values that may be None, a  *)
(* bool or a str are tagged records; so are arities (an int or a str).     *)
(***************************************************************************)
EXTENDS Integers, Sequences, FiniteSets, TLC

VARIABLES
    cmd,    \* the Command object: nargs, args, flags (name or alias -> index
            \* of its Flag in heap), flags_aliases, attrs (what setattr put on
            \* the object) and heap (the Flag objects, in creation order);
            \* under SpecParser the Parser object over its Command objects,
            \* under SpecVars the CLI object over its Variable objects
    line,   \* the argument handed to the operation: a token list or a str
    call,   \* the last call made: the operation, and for add_flag and the
            \* arity checkers the name, arity and prefix passed to it
    res,    \* what the last call returned or raised
    pc      \* position of the driver: which call comes next

vars == <<cmd, line, call, res, pc>>

----------------------------------------------------------------------------
(* Bounds *)

MaxLen == 5        \* longest token list given to Command.parse_line
MaxArgs == 4       \* longest token list given to the arity checkers
MaxNargs == 3      \* largest integer arity given to the arity checkers
MaxFlags == 2      \* most Flag objects created in one setup

----------------------------------------------------------------------------
(* Python values *)

\* one record shape for None, bool, int, str and list, so that any two
\* Python values can be compared; s holds the characters of a str or the
\* elements of a list
None == [t |-> "none", b |-> FALSE, n |-> 0, s |-> <<>>]
Bool(b) == [t |-> "bool", b |-> b, n |-> 0, s |-> <<>>]
PyInt(n) == [t |-> "int", b |-> FALSE, n |-> n, s |-> <<>>]
Str(s) == [t |-> "str", b |-> FALSE, n |-> 0, s |-> s]
List(l) == [t |-> "list", b |-> FALSE, n |-> 0, s |-> l]

\* len(x) of a str or a list
PyLen(x) == Len(x.s)

EmptyDict == [k \in {} |-> None]

\* seq[a:b] of Python, on 0-based bounds (a <= b <= len)
Slice(seq, a, b) == [j \in 1..(b - a) |-> seq[a + j]]

\* seq[a:] of Python; an out-of-range start gives the empty list
SliceFrom(seq, a) == IF a >= Len(seq) THEN <<>> ELSE Slice(seq, a, Len(seq))

----------------------------------------------------------------------------
(* Tokens and names *)

Dash == "-"
DashDash == <<"-", "-">>

tF == <<"-", "F">>
tf == <<"-", "f">>
tB == <<"-", "B">>
tZ == <<"-", "Z">>
tQ == <<"-", "Q">>
tN == <<"-", "N">>
tx == <<"x">>
tyz == <<"y", "z">>

PlainTokens == {tx, tyz}
FlagTokens == {tF, tf, tB, tZ, tQ, tN}
Tokens == PlainTokens \cup FlagTokens \cup {DashDash}

nF == <<"F">>
nf == <<"f">>
nB == <<"B">>
nZ == <<"Z">>
nQ == <<"Q">>
nN == <<"N">>
CmdName == <<"c", "m", "d">>

\* the arities: "+", "?", "*" and the integers
Plus == Str(<<"+">>)
Opt == Str(<<"?">>)
Star == Str(<<"*">>)
Bang == Str(<<"!">>)      \* a str that is no arity

SeqsUpTo(S, n) == UNION {[1..k -> S] : k \in 0..n}

Lines == SeqsUpTo(Tokens, MaxLen)

----------------------------------------------------------------------------
(* Results *)

\* a message: the context it is prefixed with (command, or command and
\* flag), whether "<prefix>: " was put in front, and the text
Msg(ctx, colon, text) == [ctx |-> ctx, colon |-> colon, text |-> text]
NoMsg == Msg(<<>>, FALSE, "")

\* Result(ok, msg, value); raised = the call ended in an exception instead
Result(ok, msg, value) ==
    [ok |-> ok, raised |-> FALSE, exc |-> "", msg |-> msg, value |-> value]
Raise(exc, msg) ==
    [ok |-> FALSE, raised |-> TRUE, exc |-> exc, msg |-> msg, value |-> None]

NoResult == Result(FALSE, NoMsg, None)

\* the message texts of the engine (numbers and names left out of the text;
\* the names are in the ctx of the message)
NoSpecification == "No specification provided"
DuplicateFlag == "Duplicate flag"
RedundantArguments == "Redundant arguments passed before flag"
AtMostOne == "Expected at most 1 argument"
ExpectedNone == "Expected no arguments"
AtLeastOne == "Expected at least one argument"
NoArgumentsPassed == "No arguments passed"
ZeroOrOne == "Expected 0 or 1 argument"
ExpectedN == "Expected n arguments, got l"
NotAnArity == "Expected a natural number or any of + * ?"
NoArgumentsProvided == "No arguments provided"
OneOrMore == "Expected 1 or more arguments, got l"
FlagArity == "Flags can only have 0 or 1 argument"
ArityErrors ==
    {NoArgumentsPassed, ZeroOrOne, ExpectedN, AtLeastOne, AtMostOne,
     NoArgumentsProvided, OneOrMore}

----------------------------------------------------------------------------
(* The arity checkers *)

\* make_msg of check_nargs (cli_parser.py), utils.py and validate.py
make_msg(text, prefix) ==
    IF prefix = <<>> THEN Msg(<<>>, FALSE, text) ELSE Msg(prefix, TRUE, text)

\* check_nargs taking an integer arity as a minimum
check_nargs_atleast(tokens, nargs, prefix) ==
    LET toks == IF tokens.t = "str" THEN List(<<tokens.s>>) ELSE tokens
        l == PyLen(toks)
        no_args == l = 0
    IN  IF nargs = Plus
        THEN IF no_args
             THEN Result(FALSE, make_msg(NoArgumentsPassed, prefix), toks)
             ELSE Result(TRUE, NoMsg, toks)
        ELSE IF nargs = Opt
        THEN IF l > 1
             THEN Result(FALSE, make_msg(ZeroOrOne, prefix), toks)
             ELSE Result(TRUE, NoMsg, toks)
        ELSE IF nargs.t = "int"
        THEN IF l < nargs.n
             THEN Result(FALSE, make_msg(ExpectedN, prefix), toks)
             ELSE Result(TRUE, NoMsg, toks)
        ELSE Result(TRUE, NoMsg, toks)

\* cli_parser.check_nargs(tokens, nargs, prefix); tokens is a str or a list
check_nargs(tokens, nargs, prefix) ==
    LET toks == IF tokens.t = "str" THEN List(<<tokens.s>>) ELSE tokens
        l == PyLen(toks)
        no_args == l = 0
    IN  IF nargs = Plus
        THEN IF no_args
             THEN Result(FALSE, make_msg(NoArgumentsPassed, prefix), toks)
             ELSE Result(TRUE, NoMsg, toks)
        ELSE IF nargs = Opt
        THEN IF l > 1
             THEN Result(FALSE, make_msg(ZeroOrOne, prefix), toks)
             ELSE Result(TRUE, NoMsg, toks)
        ELSE IF nargs.t = "int"
        THEN IF l # nargs.n
             THEN Result(FALSE, make_msg(ExpectedN, prefix), toks)
             ELSE Result(TRUE, NoMsg, toks)
        ELSE Result(TRUE, NoMsg, toks)

\* utils.check_nargs letting the empty list pass "+"
utils_check_nargs_empty(args, nargs, prefix) ==
    LET is_num == nargs.t = "int"
        l == PyLen(args)
        ctx == [value |-> args, nargs |-> nargs]
    IN  IF ~is_num /\ nargs # Star /\ nargs # Plus /\ nargs # Opt
        THEN Raise("Exception", make_msg(NotAnArity, prefix))
        ELSE IF nargs = Plus
        THEN IF l < 0
             THEN Result(FALSE, make_msg(AtLeastOne, prefix), ctx)
             ELSE Result(TRUE, NoMsg, args)
        ELSE IF nargs = Opt
        THEN IF l > 1
             THEN Result(FALSE, make_msg(AtMostOne, prefix), ctx)
             ELSE Result(TRUE, NoMsg, args)
        ELSE IF is_num
        THEN IF l # nargs.n
             THEN Result(FALSE, make_msg(ExpectedN, prefix), ctx)
             ELSE Result(TRUE, NoMsg, args)
        ELSE Result(TRUE, NoMsg, args)

\* utils.check_nargs(args, nargs, prefix); len of a str counts characters
utils_check_nargs(args, nargs, prefix) ==
    LET is_num == nargs.t = "int"
        l == PyLen(args)
        ctx == [value |-> args, nargs |-> nargs]
    IN  IF ~is_num /\ nargs # Star /\ nargs # Plus /\ nargs # Opt
        THEN Raise("Exception", make_msg(NotAnArity, prefix))
        ELSE IF nargs = Plus
        THEN IF l < 1
             THEN Result(FALSE, make_msg(AtLeastOne, prefix), ctx)
             ELSE Result(TRUE, NoMsg, args)
        ELSE IF nargs = Opt
        THEN IF l > 1
             THEN Result(FALSE, make_msg(AtMostOne, prefix), ctx)
             ELSE Result(TRUE, NoMsg, args)
        ELSE IF is_num
        THEN IF l # nargs.n
             THEN Result(FALSE, make_msg(ExpectedN, prefix), ctx)
             ELSE Result(TRUE, NoMsg, args)
        ELSE Result(TRUE, NoMsg, args)

\* validate.check_nargs letting two tokens pass "?"
validate_check_nargs_two(args, nargs, prefix) ==
    LET l == PyLen(args)
    IN  IF nargs = Plus
        THEN IF l = 0
             THEN Raise("ValueError", make_msg(NoArgumentsProvided, prefix))
             ELSE Result(TRUE, NoMsg, Bool(TRUE))
        ELSE IF nargs = Star
        THEN Result(TRUE, NoMsg, Bool(TRUE))
        ELSE IF nargs = Opt
        THEN IF l > 2
             THEN Raise("ValueError", make_msg(OneOrMore, prefix))
             ELSE Result(TRUE, NoMsg, Bool(TRUE))
        ELSE IF nargs.t = "int"
        THEN IF nargs.n < 0
             THEN Raise("ValueError", make_msg(NotAnArity, prefix))
             ELSE IF l # nargs.n
             THEN Raise("ValueError", make_msg(ExpectedN, prefix))
             ELSE Result(TRUE, NoMsg, Bool(TRUE))
        ELSE Raise("NameError", NoMsg)

\* validate.check_nargs(args, nargs, prefix): True, or raises ValueError;
\* l is taken before a str is wrapped in a list; the last branch formats an
\* undefined name x, which raises NameError
validate_check_nargs(args, nargs, prefix) ==
    LET l == PyLen(args)
    IN  IF nargs = Plus
        THEN IF l = 0
             THEN Raise("ValueError", make_msg(NoArgumentsProvided, prefix))
             ELSE Result(TRUE, NoMsg, Bool(TRUE))
        ELSE IF nargs = Star
        THEN Result(TRUE, NoMsg, Bool(TRUE))
        ELSE IF nargs = Opt
        THEN IF l > 1
             THEN Raise("ValueError", make_msg(OneOrMore, prefix))
             ELSE Result(TRUE, NoMsg, Bool(TRUE))
        ELSE IF nargs.t = "int"
        THEN IF nargs.n < 0
             THEN Raise("ValueError", make_msg(NotAnArity, prefix))
             ELSE IF l # nargs.n
             THEN Raise("ValueError", make_msg(ExpectedN, prefix))
             ELSE Result(TRUE, NoMsg, Bool(TRUE))
        ELSE Raise("NameError", NoMsg)

----------------------------------------------------------------------------
(* The value parsers *)

\* a call that returned a bare value, not a Result: x.ok, or unpacking x
\* into (ok, msg, value), is an error for it; exc = "value" marks it
Plain(v) ==
    [ok |-> TRUE, raised |-> FALSE, exc |-> "value", msg |-> NoMsg, value |-> v]
IsPlain(r) == ~r.raised /\ r.exc = "value"

Digits == <<"0", "1", "2", "3", "4", "5", "6", "7", "8", "9">>
IsDigit(c) == \E i \in 1..10 : Digits[i] = c
DigitValue(c) == (CHOOSE i \in 1..10 : Digits[i] = c) - 1

\* int(s) of a non-empty run of decimal digits
RECURSIVE DigitsToInt(_)
DigitsToInt(s) ==
    IF s = <<>>
    THEN 0
    ELSE 10 * DigitsToInt(SubSeq(s, 1, Len(s) - 1)) + DigitValue(s[Len(s)])

\* re.search(r'^[0-9]+$', s)
AllDigits(s) == Len(s) > 0 /\ \A i \in 1..Len(s) : IsDigit(s[i])

Uppercase ==
    <<"A", "B", "C", "D", "E", "F", "G", "H", "I", "J", "K", "L", "M",
      "N", "O", "P", "Q", "R", "S", "T", "U", "V", "W", "X", "Y", "Z">>
Lowercase ==
    <<"a", "b", "c", "d", "e", "f", "g", "h", "i", "j", "k", "l", "m",
      "n", "o", "p", "q", "r", "s", "t", "u", "v", "w", "x", "y", "z">>

\* s.lower()
lower(s) ==
    [i \in 1..Len(s) |->
        IF \E j \in 1..26 : Uppercase[j] = s[i]
        THEN Lowercase[CHOOSE j \in 1..26 : Uppercase[j] = s[i]]
        ELSE s[i]]

\* the message texts of the parsers (the value left out of the text)
ExpectedInteger == "Expected an integer, got s"
ExpectedInRange == "Expected input to be in range start-end"
ExpectedAnInteger == "Expected a an integer, got s"
ExpectedBetween == "Expected a an integer between start and end, got s"
ExpectedSmaller == "Expected a an integer smaller than start, got s"
ExpectedGreater == "Expected a an integer greater than end, got s"
ExpectedOnOff ==
    "Expected any of on, true, True OR off, false, False, got s"
CallableFailed == "Assertion error: msg"

\* utils.parse_int(s): s is a str, or a list whose first element is taken;
\* the failure Result has ok = None, which no caller tells from False
parse_int(s) ==
    LET search(x) ==
            IF AllDigits(x.s)
            THEN Result(TRUE, NoMsg, PyInt(DigitsToInt(x.s)))
            ELSE Result(FALSE, Msg(<<>>, FALSE, ExpectedInteger), x)
    IN  IF s.t = "list" /\ PyLen(s) = 0
        THEN Raise("IndexError", NoMsg)
        ELSE search(IF s.t = "list" THEN Str(s.s[1]) ELSE s)

\* utils.parse_int_in_range(start, end)(x): the closure called on x; out of
\* the range it gives a failure Result, in the range the bare integer
parse_int_in_range(start, end, x) ==
    IF ~(start >= 0) \/ ~(end > 0)
    THEN Raise("AssertionError", NoMsg)
    ELSE LET parse(r) ==
                 IF r.raised \/ ~r.ok
                 THEN r
                 ELSE IF r.value.n < start \/ r.value.n >= end
                 THEN Result(FALSE, Msg(<<>>, FALSE, ExpectedInRange),
                             [input |-> r.value])
                 ELSE Plain(r.value)
         IN  parse(parse_int(x))

\* int(s) of Python on a str without blanks and underscores: an optional
\* sign and one or more digits, or ValueError
int(s) ==
    LET signed == Len(s) > 0 /\ s[1] \in {"-", "+"}
        digits(body) ==
            IF ~AllDigits(body)
            THEN Raise("ValueError", NoMsg)
            ELSE IF signed /\ s[1] = "-"
            THEN Plain(PyInt(0 - DigitsToInt(body)))
            ELSE Plain(PyInt(DigitsToInt(body)))
    IN  digits(IF signed THEN Tail(s) ELSE s)

\* truth value of start and end in "if start and end", "elif start"
Truthy(x) ==
    CASE x.t = "none" -> FALSE
      [] x.t = "bool" -> x.b
      [] x.t = "int" -> x.n # 0
      [] OTHER -> Len(x.s) > 0

\* validate.parse_number(s, int, start, end, prefix): the integer, or
\* ValueError; with both bounds given the value end itself is let through
parse_number(s, start, end, prefix) ==
    LET bounded(v) ==
            IF v.raised
            THEN Raise("ValueError", make_msg(ExpectedAnInteger, prefix))
            ELSE IF Truthy(start) /\ Truthy(end)
            THEN IF v.value.n < start.n \/ v.value.n > end.n
                 THEN Raise("ValueError", make_msg(ExpectedBetween, prefix))
                 ELSE v
            ELSE IF Truthy(start)
            THEN IF v.value.n < start.n
                 THEN Raise("ValueError", make_msg(ExpectedSmaller, prefix))
                 ELSE v
            ELSE IF Truthy(end)
            THEN IF start.t # "int"
                 THEN Raise("TypeError", NoMsg)
                 ELSE IF v.value.n < start.n
                 THEN Raise("ValueError", make_msg(ExpectedGreater, prefix))
                 ELSE v
            ELSE v
    IN  bounded(int(s.s))

\* validate.parse_int(s, start, end, prefix)
validate_parse_int(s, start, end, prefix) ==
    parse_number(s, start, end, prefix)

\* validate.parse_bool(s, prefix): the bool, or ValueError
validate_parse_bool(s, prefix) ==
    IF s.s = <<>> \/ s.s = <<"o", "f", "f">>
          \/ lower(s.s) = <<"f", "a", "l", "s", "e">> \/ s.s = <<"0">>
    THEN Plain(Bool(FALSE))
    ELSE IF s.s = <<"o", "n">> \/ lower(s.s) = <<"t", "r", "u", "e">>
               \/ s.s = <<"1">>
    THEN Plain(Bool(TRUE))
    ELSE Raise("ValueError", make_msg(ExpectedOnOff, prefix))

\* utils.parse_bool(s): never fails; everything but "on", "True", "true"
\* and "1" is False
utils_parse_bool(s) ==
    IF s.t = "list" /\ PyLen(s) = 0
    THEN Raise("IndexError", NoMsg)
    ELSE LET known(x) ==
                 IF ~Truthy(x)
                 THEN Result(TRUE, NoMsg, Bool(FALSE))
                 ELSE IF x.s = <<"o", "n">> \/ x.s = <<"T", "r", "u", "e">>
                           \/ x.s = <<"t", "r", "u", "e">> \/ x.s = <<"1">>
                 THEN Result(TRUE, NoMsg, Bool(TRUE))
                 ELSE Result(TRUE, NoMsg, Bool(FALSE))
         IN  known(IF s.t = "list" THEN Str(s.s[1]) ELSE s)

----------------------------------------------------------------------------
(* Flag *)

\* Flag.__init__: the value starts unset
Flag(command, flag, nargs, validator, default, aliases) ==
    [command |-> command, name |-> flag, nargs |-> nargs,
     validator |-> validator, default |-> default, aliases |-> aliases,
     value |-> None]

\* a validator that is a callable, by the name of the function
Callable(name) == [t |-> "callable", b |-> FALSE, n |-> 0, s |-> <<name>>]
ParseInt == Callable("parse_int")
ParseIntInRange == Callable("parse_int_in_range")
ParseBool == Callable("parse_bool")

\* the range the range validator is built for
IntRange == [start |-> 50, end |-> 4096]

\* validator(args) for a callable validator
apply(validator, args) ==
    CASE validator = ParseInt -> parse_int(args)
      [] validator = ParseIntInRange ->
            parse_int_in_range(IntRange.start, IntRange.end, args)
      [] validator = ParseBool -> utils_parse_bool(args)

\* a validator that is a dict, by the name of the dict
Dict(name) == [t |-> "dict", b |-> FALSE, n |-> 0, s |-> <<name>>]
OnOff == Dict("on_off")
Level == Dict("level")
Mappings == {OnOff, Level}

\* the dicts: {'on': True, 'off': False} and {'0': 0, '5': 5, 'x': ''}
items(validator) ==
    CASE validator = OnOff ->
            [k \in {<<"o", "n">>, <<"o", "f", "f">>} |-> Bool(k = <<"o", "n">>)]
      [] validator = Level ->
            [k \in {<<"0">>, <<"5">>, <<"x">>} |->
                IF k = <<"x">> THEN Str(<<>>) ELSE PyInt(DigitsToInt(k))]

\* validator.get(key) of a dict: None for a key it does not have
get(validator, key) ==
    IF key \in DOMAIN items(validator) THEN items(validator)[key] ELSE None

ExpectedString == "Expected string, got args"
ExpectedValues == "Expected value(s): values, got args"
NotInValidator == "Value is not in validator"

\* validate(args, validator, prefix) of cli_parser.py for a validator that
\* is a dict, a callable or None. The dict is asked with get and the answer
\* is tested for truth. The callable has to return a Result, which is
\* unpacked; a bare value in its place is a TypeError
validate(args, validator, prefix) ==
    LET unpack(a, r) ==
            IF r.raised
            THEN r
            ELSE IF IsPlain(r)
            THEN Raise("TypeError", NoMsg)
            ELSE IF ~r.ok
            THEN Result(FALSE, make_msg(CallableFailed, prefix), a)
            ELSE Result(TRUE, NoMsg, r.value)
        called(a) ==
            IF validator.t = "dict"
            THEN IF a.t # "str"
                 THEN Result(FALSE, make_msg(ExpectedString, prefix), a)
                 ELSE IF Truthy(get(validator, a.s))
                 THEN Result(TRUE, NoMsg, get(validator, a.s))
                 ELSE Result(FALSE, make_msg(ExpectedValues, prefix), a)
            ELSE IF validator.t = "callable"
            THEN unpack(a, apply(validator, a))
            ELSE Result(TRUE, NoMsg, a)
    IN  called(IF args.t = "list" /\ PyLen(args) = 1
               THEN Str(args.s[1])
               ELSE args)

\* validate(value, validator, prefix) of utils.py for a validator that is
\* None, a dict or a callable: the value is made a list and its first
\* element is looked up with "in"
utils_validate(value, validator, prefix) ==
    LET unpack(r) ==
            IF r.raised
            THEN r
            ELSE IF IsPlain(r)
            THEN Raise("TypeError", NoMsg)
            ELSE IF r.ok
            THEN Result(TRUE, NoMsg, r.value)
            ELSE Result(FALSE, r.msg, [value |-> r.value])
        listed(v) ==
            IF validator = None
            THEN Result(TRUE, NoMsg, v)
            ELSE IF validator.t = "dict"
            THEN IF PyLen(v) = 0
                 THEN Raise("IndexError", NoMsg)
                 ELSE IF v.s[1] \notin DOMAIN items(validator)
                 THEN Result(FALSE, make_msg(NotInValidator, prefix),
                             [value |-> Str(v.s[1])])
                 ELSE Result(TRUE, NoMsg, items(validator)[v.s[1]])
            ELSE unpack(apply(validator, v))
    IN  listed(IF value.t = "list" THEN value ELSE List(<<value.s>>))

\* Flag.check(value, prefix): a flag without validator accepts the value as
\* it is
Flag_check(self, value, prefix) ==
    IF Truthy(self.validator)
    THEN validate(value, self.validator, prefix)
    ELSE Result(TRUE, NoMsg, value)

\* Flag.make_msg(msg, prefix): the test is the reverse of make_msg's; a
\* non-empty prefix is dropped and an empty one is put in front
Flag_make_msg(text, prefix) ==
    IF Len(prefix) > 0 THEN Msg(<<>>, FALSE, text) ELSE Msg(prefix, TRUE, text)

CanToggleOnly == "Can toggle flag only when nargs = ? | 0"

\* Flag.reset()
Flag_reset(self) == [self EXCEPT !.value = None]

\* toggle that flips a flag of any arity
toggle_any(self, prefix) ==
    [res |-> Plain(None),
     self |-> [self EXCEPT
                 !.value = IF ~Truthy(self.value)
                           THEN Bool(TRUE)
                           ELSE Bool(FALSE)]]

\* toggle that switches the flag on whatever its value
toggle_on(self, prefix) ==
    IF self.nargs # Opt /\ self.nargs # PyInt(0)
    THEN [res |-> Result(FALSE, Flag_make_msg(CanToggleOnly, prefix),
                         self.nargs),
          self |-> self]
    ELSE [res |-> Plain(None), self |-> [self EXCEPT !.value = Bool(TRUE)]]

\* Flag.toggle(prefix): gives the failure Result for a flag of another
\* arity; after the flip the method ends without a return statement, so
\* the caller gets None
toggle(self, prefix) ==
    IF self.nargs # Opt /\ self.nargs # PyInt(0)
    THEN [res |-> Result(FALSE, Flag_make_msg(CanToggleOnly, prefix),
                         self.nargs),
          self |-> self]
    ELSE [res |-> Plain(None),
          self |-> [self EXCEPT
                      !.value = IF ~Truthy(self.value)
                                THEN Bool(TRUE)
                                ELSE Bool(FALSE)]]

\* set_value writing the accepted value into the default of the flag as well
set_value_one_default(self, value, prefix) ==
    IF value # None
    THEN IF self.nargs = PyInt(0)
         THEN [res |-> Result(FALSE, Flag_make_msg(ExpectedNone, prefix),
                              [nargs |-> value, value |-> value]),
               self |-> self]
         ELSE LET checked(r) ==
                      IF ~r.ok
                      THEN [res |-> r, self |-> self]
                      ELSE [res |-> Result(TRUE, NoMsg, r.value),
                            self |-> [self EXCEPT !.value = r.value,
                                                  !.default = r.value]]
              IN  checked(Flag_check(self, value, prefix))
    ELSE IF self.nargs = PyInt(1)
    THEN [res |-> Result(FALSE, Flag_make_msg(AtLeastOne, prefix),
                         [nargs |-> self.nargs, value |-> value]),
          self |-> self]
    ELSE [res |-> Result(TRUE, NoMsg, Bool(TRUE)),
          self |-> [self EXCEPT !.value = Bool(TRUE)]]

\* set_value storing the value it was given whatever the check says
set_value_one_stores(self, value, prefix) ==
    IF value # None
    THEN IF self.nargs = PyInt(0)
         THEN [res |-> Result(FALSE, Flag_make_msg(ExpectedNone, prefix),
                              [nargs |-> value, value |-> value]),
               self |-> self]
         ELSE LET checked(r) ==
                      IF ~r.ok
                      THEN [res |-> r, self |-> [self EXCEPT !.value = value]]
                      ELSE [res |-> Result(TRUE, NoMsg, r.value),
                            self |-> [self EXCEPT !.value = r.value]]
              IN  checked(Flag_check(self, value, prefix))
    ELSE IF self.nargs = PyInt(1)
    THEN [res |-> Result(FALSE, Flag_make_msg(AtLeastOne, prefix),
                         [nargs |-> self.nargs, value |-> value]),
          self |-> self]
    ELSE [res |-> Result(TRUE, NoMsg, Bool(TRUE)),
          self |-> [self EXCEPT !.value = Bool(TRUE)]]

\* Flag.set_value(value, prefix) on a value that is None or a str; gives the
\* Result and the Flag after the call
set_value_one(self, value, prefix) ==
    IF value # None
    THEN IF self.nargs = PyInt(0)
         THEN [res |-> Result(FALSE, Flag_make_msg(ExpectedNone, prefix),
                              [nargs |-> value, value |-> value]),
               self |-> self]
         ELSE LET checked(r) ==
                      IF ~r.ok
                      THEN [res |-> r, self |-> self]
                      ELSE [res |-> Result(TRUE, NoMsg, r.value),
                            self |-> [self EXCEPT !.value = r.value]]
              IN  checked(Flag_check(self, value, prefix))
    ELSE IF self.nargs = PyInt(1)
    THEN [res |-> Result(FALSE, Flag_make_msg(AtLeastOne, prefix),
                         [nargs |-> self.nargs, value |-> value]),
          self |-> self]
    ELSE [res |-> Result(TRUE, NoMsg, Bool(TRUE)),
          self |-> [self EXCEPT !.value = Bool(TRUE)]]

\* Flag.set_value(value, prefix): a list is unwrapped first
set_value(self, value, prefix) ==
    IF value.t = "list"
    THEN LET l == PyLen(value)
         IN  IF l > 1
             THEN [res |-> Result(FALSE, Flag_make_msg(AtMostOne, prefix),
                                  [nargs |-> self.nargs, value |-> value]),
                   self |-> self]
             ELSE IF l = 1
             THEN set_value_one(self, Str(value.s[1]), prefix)
             ELSE set_value_one(self, None, prefix)
    ELSE set_value_one(self, value, prefix)

----------------------------------------------------------------------------
(* Command *)

\* Command.__init__(name, nargs, validator, aliases): no flags and no
\* arguments yet
NamedCommand(name, nargs, validator, aliases) ==
    [name |-> name, nargs |-> nargs, validator |-> validator,
     aliases |-> aliases, args |-> <<>>, flags |-> EmptyDict,
     flags_aliases |-> {}, attrs |-> EmptyDict, heap |-> <<>>]

\* Command("cmd", nargs)
Command(nargs) == NamedCommand(CmdName, nargs, None, <<>>)

\* add_flag storing under every alias a Flag object of its own
add_flag_store_copies(self, name, nargs, validator, default, aliases) ==
    LET obj == Flag(self.name, name, nargs, validator, default, aliases)
        ix == Len(self.heap) + 1
        als == {aliases[j] : j \in 1..Len(aliases)}
        names == {name} \cup als
        copies == [j \in 1..Len(aliases) |-> obj]
        first(k) == CHOOSE j \in 1..Len(aliases) : aliases[j] = k
    IN  [res |-> Result(TRUE, NoMsg, obj),
         cmd |-> [self EXCEPT
                    !.heap = Append(self.heap, obj) \o copies,
                    !.flags = [k \in DOMAIN self.flags \cup names |->
                                 IF k = name THEN ix
                                 ELSE IF k \in als THEN ix + first(k)
                                 ELSE self.flags[k]],
                    !.flags_aliases = self.flags_aliases \cup als,
                    !.attrs = [k \in DOMAIN self.attrs \cup {name} |->
                                 IF k = name THEN default ELSE self.attrs[k]]]]

\* Command.add_flag once the arity is accepted: the new Flag is stored under
\* its name and under every alias, and its default becomes an attribute
add_flag_store(self, name, nargs, validator, default, aliases) ==
    LET obj == Flag(self.name, name, nargs, validator, default, aliases)
        ix == Len(self.heap) + 1
        als == {aliases[j] : j \in 1..Len(aliases)}
        names == {name} \cup als
    IN  [res |-> Result(TRUE, NoMsg, obj),
         cmd |-> [self EXCEPT
                    !.heap = Append(self.heap, obj),
                    !.flags = [k \in DOMAIN self.flags \cup names |->
                                 IF k \in names THEN ix ELSE self.flags[k]],
                    !.flags_aliases = self.flags_aliases \cup als,
                    !.attrs = [k \in DOMAIN self.attrs \cup {name} |->
                                 IF k = name THEN default ELSE self.attrs[k]]]]

\* add_flag without its arity test
add_flag_unchecked(self, name, nargs, validator, default, aliases) ==
    add_flag_store(self, name, nargs, validator, default, aliases)

\* Command.add_flag(name, nargs, validator, default, aliases): the Result is
\* the new Flag, or the Exception raised for an arity other than 0, 1, "?"
add_flag(self, name, nargs, validator, default, aliases) ==
    IF ~(nargs = PyInt(0) \/ nargs = PyInt(1) \/ nargs = Opt)
    THEN [res |-> Raise("Exception",
                        Msg(<<self.name, name>>, TRUE, FlagArity)),
          cmd |-> self]
    ELSE add_flag_store(self, name, nargs, validator, default, aliases)

\* Command.get_flag(flag): the Flag registered under the name or alias
get_flag(self, flag) ==
    IF flag \in DOMAIN self.flags
    THEN Result(TRUE, NoMsg, self.heap[self.flags[flag]])
    ELSE Result(FALSE, Msg(<<self.name, flag>>, TRUE, NoSpecification),
                [command |-> self.name])

\* Command.query_flag(flag, "nargs")
query_flag_nargs(self, flag) ==
    LET r == get_flag(self, flag)
    IN  IF r.ok THEN Result(TRUE, NoMsg, r.value.nargs) ELSE r

\* keys of the dict pos of parse_line: an int (a token index) or a str
IntKey(i) == PyInt(i)
StrKey(w) == Str(w)

\* the first loop of parse_line without the test for tokens before the
\* first marker
RECURSIVE scan_leading(_, _, _, _, _, _)
scan_leading(self, args_, args, i, pos, ctr) ==
    IF i >= Len(args)
    THEN [ret |-> FALSE, res |-> NoResult, pos |-> pos]
    ELSE LET word0 == args[i + 1]
         IN  IF word0[1] = Dash
             THEN LET word == SliceFrom(word0, 1)
                      known == word \in DOMAIN self.flags
                  IN  IF ~known
                      THEN [ret |-> TRUE, pos |-> pos,
                            res |-> Result(FALSE,
                                           Msg(<<self.name, word>>, TRUE,
                                               NoSpecification),
                                           List(args_))]
                      ELSE IF StrKey(word) \in DOMAIN pos
                      THEN [ret |-> TRUE, pos |-> pos,
                            res |-> Result(FALSE,
                                           Msg(<<self.name, word>>, TRUE,
                                               DuplicateFlag),
                                           List(args_))]
                      ELSE IF FALSE
                      THEN [ret |-> TRUE, pos |-> pos,
                            res |-> Result(FALSE,
                                           Msg(<<self.name>>, TRUE,
                                               RedundantArguments),
                                           List(args_))]
                      ELSE scan_leading(self, args_, args, i + 1,
                                [k \in DOMAIN pos \cup {IntKey(i)} |->
                                   IF k = IntKey(i)
                                   THEN self.heap[self.flags[word]].name
                                   ELSE pos[k]],
                                ctr + 1)
             ELSE scan_leading(self, args_, args, i + 1, pos, ctr)

\* the first loop of parse_line looking a marker up among the flag names
\* only, not the aliases
RECURSIVE scan_names(_, _, _, _, _, _)
scan_names(self, args_, args, i, pos, ctr) ==
    IF i >= Len(args)
    THEN [ret |-> FALSE, res |-> NoResult, pos |-> pos]
    ELSE LET word0 == args[i + 1]
         IN  IF word0[1] = Dash
             THEN LET word == SliceFrom(word0, 1)
                      known == word \in DOMAIN self.flags \ self.flags_aliases
                  IN  IF ~known
                      THEN [ret |-> TRUE, pos |-> pos,
                            res |-> Result(FALSE,
                                           Msg(<<self.name, word>>, TRUE,
                                               NoSpecification),
                                           List(args_))]
                      ELSE IF StrKey(word) \in DOMAIN pos
                      THEN [ret |-> TRUE, pos |-> pos,
                            res |-> Result(FALSE,
                                           Msg(<<self.name, word>>, TRUE,
                                               DuplicateFlag),
                                           List(args_))]
                      ELSE IF i > 0 /\ ctr = 0
                      THEN [ret |-> TRUE, pos |-> pos,
                            res |-> Result(FALSE,
                                           Msg(<<self.name>>, TRUE,
                                               RedundantArguments),
                                           List(args_))]
                      ELSE scan_names(self, args_, args, i + 1,
                                [k \in DOMAIN pos \cup {IntKey(i)} |->
                                   IF k = IntKey(i)
                                   THEN self.heap[self.flags[word]].name
                                   ELSE pos[k]],
                                ctr + 1)
             ELSE scan_names(self, args_, args, i + 1, pos, ctr)

\* the first loop of parse_line from index i (0-based) on: pos maps the index
\* of each flag marker to the name of its Flag, ctr counts the markers; ret
\* tells that the loop returned res
RECURSIVE scan(_, _, _, _, _, _)
scan(self, args_, args, i, pos, ctr) ==
    IF i >= Len(args)
    THEN [ret |-> FALSE, res |-> NoResult, pos |-> pos]
    ELSE LET word0 == args[i + 1]
         IN  IF word0[1] = Dash
             THEN LET word == SliceFrom(word0, 1)
                      known == word \in DOMAIN self.flags
                  IN  IF ~known
                      THEN [ret |-> TRUE, pos |-> pos,
                            res |-> Result(FALSE,
                                           Msg(<<self.name, word>>, TRUE,
                                               NoSpecification),
                                           List(args_))]
                      ELSE IF StrKey(word) \in DOMAIN pos
                      THEN [ret |-> TRUE, pos |-> pos,
                            res |-> Result(FALSE,
                                           Msg(<<self.name, word>>, TRUE,
                                               DuplicateFlag),
                                           List(args_))]
                      ELSE IF i > 0 /\ ctr = 0
                      THEN [ret |-> TRUE, pos |-> pos,
                            res |-> Result(FALSE,
                                           Msg(<<self.name>>, TRUE,
                                               RedundantArguments),
                                           List(args_))]
                      ELSE scan(self, args_, args, i + 1,
                                [k \in DOMAIN pos \cup {IntKey(i)} |->
                                   IF k = IntKey(i)
                                   THEN self.heap[self.flags[word]].name
                                   ELSE pos[k]],
                                ctr + 1)
             ELSE scan(self, args_, args, i + 1, pos, ctr)

\* sorted(list(pos.items()), key=index): the <<index, flag name>> pairs in
\* increasing index
RECURSIVE sorted_items(_)
sorted_items(pos) ==
    IF DOMAIN pos = {}
    THEN <<>>
    ELSE LET k == CHOOSE k \in DOMAIN pos : \A j \in DOMAIN pos : k.n <= j.n
         IN  <<(<<k.n, pos[k]>>)>>
             \o sorted_items([j \in DOMAIN pos \ {k} |-> pos[j]])

\* index of the last "--" of args, or 0
index_dashdash_last(args) ==
    IF \E j \in 1..Len(args) : args[j] = DashDash
    THEN CHOOSE j \in 1..Len(args) :
            /\ args[j] = DashDash
            /\ \A k \in (j + 1)..Len(args) : args[k] # DashDash
    ELSE 0

\* index of the first "--" of args (1-based), or 0 when there is none
index_dashdash(args) ==
    IF \E j \in 1..Len(args) : args[j] = DashDash
    THEN CHOOSE j \in 1..Len(args) :
            /\ args[j] = DashDash
            /\ \A k \in 1..(j - 1) : args[k] # DashDash
    ELSE 0

\* the body of the second loop of parse_line for the pair of markers i, i+1
\* (0-based): after the arity of the first flag is read, the call
\* obj.set_value(..) names a variable bound nowhere in the module, so the
\* body ends in NameError before any Flag is touched
pair_step(self, args, pos, i) ==
    LET a == pos[i + 1]
        b == pos[i + 2]
        a_flag == a[2]
        nargs == query_flag_nargs(self, a_flag)
        fargs == Slice(args, a[1] + 1, b[1])
    IN  IF ~nargs.ok THEN nargs ELSE Raise("NameError", NoMsg)

\* the end of parse_line: the arity check of the positional arguments
parse_line_end(self, positional, flagvalues) ==
    LET r == check_nargs(List(positional), self.nargs, <<self.name>>)
    IN  IF ~r.ok
        THEN r
        ELSE Result(TRUE, NoMsg,
                    [positional |-> positional, flags |-> flagvalues])

\* the part of parse_line for the last marker: an arity-0 flag leaves all
\* the tokens after it to the positionals, another flag takes the first
parse_line_last(self, args, positional, pos) ==
    LET last == pos[Len(pos)]
        last_ind == last[1]
        last_args0 == SliceFrom(args, last_ind + 1)
        last_flag == last[2]
        nargs == query_flag_nargs(self, last_flag)
        prefix == <<self.name, last_flag>>
        positional1 ==
            IF Len(last_args0) > 0
            THEN IF nargs.value = PyInt(0)
                 THEN positional \o last_args0
                 ELSE positional \o SliceFrom(last_args0, 1)
            ELSE positional
        last_args ==
            IF Len(last_args0) > 0
            THEN IF nargs.value = PyInt(0) THEN <<>> ELSE <<last_args0[1]>>
            ELSE last_args0
        ix == self.flags[last_flag]
        sv == set_value(self.heap[ix], List(last_args), prefix)
        self1 == [self EXCEPT !.heap[ix] = sv.self]
    IN  IF ~nargs.ok
        THEN [res |-> nargs, cmd |-> self]
        ELSE IF ~sv.res.ok
        THEN [res |-> sv.res, cmd |-> self1]
        ELSE [res |-> parse_line_end(self1, positional1,
                                     [k \in {last_flag} |-> sv.self.value]),
              cmd |-> self1]

\* Command.parse_line(args): the Result and the Command afterwards
parse_line(self, args_) ==
    LET e == index_dashdash(args_)
        positional == IF e > 0 THEN SliceFrom(args_, e) ELSE <<>>
        args == IF e > 0 THEN Slice(args_, 0, e - 1) ELSE args_
        sc == scan(self, args_, args, 0, EmptyDict, 0)
        pos == sorted_items(sc.pos)
    IN  IF sc.ret
        THEN [res |-> sc.res, cmd |-> self]
        ELSE IF Len(pos) - 1 > 0
        THEN [res |-> pair_step(self, args, pos, 0), cmd |-> self]
        ELSE IF Len(pos) > 0
        THEN parse_line_last(self, args, positional, pos)
        ELSE [res |-> parse_line_end(self, args \o positional, EmptyDict),
              cmd |-> self]

\* Command.reset(): the arguments are dropped, every flag is unset and the
\* attribute of its name goes back to the default; the keys that are
\* aliases are passed over
Command_reset(self) ==
    LET names == DOMAIN self.flags \ self.flags_aliases
    IN  [self EXCEPT
           !.args = <<>>,
           !.heap = [i \in 1..Len(self.heap) |->
                       IF \E k \in names : self.flags[k] = i
                       THEN Flag_reset(self.heap[i])
                       ELSE self.heap[i]],
           !.attrs = [k \in DOMAIN self.attrs \cup names |->
                        IF k \in names
                        THEN self.heap[self.flags[k]].default
                        ELSE self.attrs[k]]]

\* Command.__getitem__(flag): the value of the Flag under the name or
\* alias, None for a name that is no key
getitem(self, flag) ==
    IF flag \in DOMAIN self.flags
    THEN self.heap[self.flags[flag]].value
    ELSE None

----------------------------------------------------------------------------
(* The registered command: one command with four flags, as a setup calls  *)
(* Command(..) and add_flag(..)                                           *)

\* add_flag calls of the setup, in order: name, nargs, aliases
FlagSpecs ==
    << <<nF, PyInt(1), <<nf>> >>,
       <<nB, PyInt(1), <<>> >>,
       <<nZ, PyInt(0), <<>> >>,
       <<nQ, Opt, <<>> >> >>

RECURSIVE setup_flags(_, _)
setup_flags(self, k) ==
    IF k > Len(FlagSpecs)
    THEN self
    ELSE setup_flags(add_flag(self, FlagSpecs[k][1], FlagSpecs[k][2],
                              None, None, FlagSpecs[k][3]).cmd,
                     k + 1)

\* the command after setup: any number of positional arguments
Registered == setup_flags(Command(Star), 1)

----------------------------------------------------------------------------
(* One line through the parser *)

Call(op, name, nargs, prefix) ==
    [op |-> op, name |-> name, nargs |-> nargs, prefix |-> prefix]
NoCall == Call("", <<>>, None, <<>>)

Init ==
    /\ cmd = Registered
    /\ line = None
    /\ call = NoCall
    /\ res = NoResult
    /\ pc = "read"

\* the caller obtains a line, already split into tokens
ReadLine(l) ==
    /\ pc = "read"
    /\ line' = List(l)
    /\ pc' = "parse"
    /\ UNCHANGED <<cmd, call, res>>

\* cmd.parse_line(tokens)
ParseLine ==
    /\ pc = "parse"
    /\ LET r == parse_line(cmd, line.s)
       IN  /\ res' = r.res
           /\ cmd' = r.cmd
    /\ call' = Call("parse_line", <<>>, None, <<>>)
    /\ pc' = "done"
    /\ UNCHANGED line

Next ==
    \/ pc = "read" /\ \E l \in Lines : ReadLine(l)
    \/ ParseLine

Spec == Init /\ [][Next]_vars

----------------------------------------------------------------------------
(* The setup of a command: add_flag calls on a new Command *)

SetupNames == {nF, nB}
SetupNargs == {PyInt(0), PyInt(1), PyInt(2), Opt, Plus, Star}
SetupAliases == {<<>>, <<nf>>}

InitSetup ==
    /\ cmd = Command(Star)
    /\ line = None
    /\ call = NoCall
    /\ res = NoResult
    /\ pc = "setup"

\* cmd.add_flag(name, nargs, aliases=aliases); the Exception of a refused
\* arity is caught nowhere and ends the setup
AddFlag(name, nargs, aliases) ==
    /\ pc = "setup"
    /\ Len(cmd.heap) < MaxFlags
    /\ LET r == add_flag(cmd, name, nargs, None, None, aliases)
       IN  /\ res' = r.res
           /\ cmd' = r.cmd
           /\ pc' = IF r.res.raised THEN "raised" ELSE "setup"
    /\ call' = Call("add_flag", name, nargs, <<>>)
    /\ UNCHANGED line

NextSetup ==
    \E name \in SetupNames, nargs \in SetupNargs, aliases \in SetupAliases :
        AddFlag(name, nargs, aliases)

SpecSetup == InitSetup /\ [][NextSetup]_vars

----------------------------------------------------------------------------
(* The arity checkers on their own *)

ArgInputs ==
    {List(l) : l \in SeqsUpTo(PlainTokens, MaxArgs)}
        \cup {Str(t) : t \in PlainTokens}
NargsInputs == {PyInt(n) : n \in 0..MaxNargs} \cup {Plus, Opt, Star, Bang}
PrefixInputs == {<<>>, <<CmdName>>}

InitNargs ==
    /\ cmd = Registered
    /\ line \in ArgInputs
    /\ call = NoCall
    /\ res = NoResult
    /\ pc = "check"

\* check_nargs(line, nargs, prefix) of cli_parser.py
CheckNargs(nargs, prefix) ==
    /\ pc = "check"
    /\ res' = check_nargs(line, nargs, prefix)
    /\ call' = Call("check_nargs", <<>>, nargs, prefix)
    /\ pc' = "done"
    /\ UNCHANGED <<cmd, line>>

\* check_nargs(line, nargs, prefix) of utils.py
UtilsCheckNargs(nargs, prefix) ==
    /\ pc = "check"
    /\ res' = utils_check_nargs(line, nargs, prefix)
    /\ call' = Call("utils.check_nargs", <<>>, nargs, prefix)
    /\ pc' = "done"
    /\ UNCHANGED <<cmd, line>>

\* check_nargs(line, nargs, prefix) of validate.py
ValidateCheckNargs(nargs, prefix) ==
    /\ pc = "check"
    /\ res' = validate_check_nargs(line, nargs, prefix)
    /\ call' = Call("validate.check_nargs", <<>>, nargs, prefix)
    /\ pc' = "done"
    /\ UNCHANGED <<cmd, line>>

NextNargs ==
    \/ \E nargs \in NargsInputs, prefix \in PrefixInputs :
            CheckNargs(nargs, prefix)
    \/ \E nargs \in NargsInputs, prefix \in PrefixInputs :
            UtilsCheckNargs(nargs, prefix)
    \/ \E nargs \in NargsInputs, prefix \in PrefixInputs :
            ValidateCheckNargs(nargs, prefix)

SpecNargs == InitNargs /\ [][NextNargs]_vars

----------------------------------------------------------------------------
(* The parser: a raw line is split, its first token names the command and  *)
(* the command parses the other tokens                                     *)

MaxWords == 2      \* most tokens after the command token of a raw line

Space == " "
Tab == "\t"
Whitespace == {Space, Tab}
NoCommandGiven == "No command or argument(s) given"
NoInputProvided == "No input provided"
InvalidCommand == "Invalid command provided"

\* len(x) of a Result, a namedtuple of three fields
ResultLen == 3

\* x.strip()
RECURSIVE strip(_)
strip(x) ==
    IF x = <<>>
    THEN x
    ELSE IF x[1] \in Whitespace
    THEN strip(Tail(x))
    ELSE IF x[Len(x)] \in Whitespace
    THEN strip(SubSeq(x, 1, Len(x) - 1))
    ELSE x

\* re.split(' +', s) without the empty pieces: the runs of characters
\* between the runs of spaces; word is the run being read
RECURSIVE pieces(_, _)
pieces(s, word) ==
    IF s = <<>>
    THEN IF word = <<>> THEN <<>> ELSE <<word>>
    ELSE IF s[1] = Space
    THEN (IF word = <<>> THEN <<>> ELSE <<word>>) \o pieces(Tail(s), <<>>)
    ELSE pieces(Tail(s), Append(word, s[1]))

\* split(s): the words of s, stripped; a Result in both cases
split(s) ==
    LET found == pieces(s, <<>>)
        words == [i \in 1..Len(found) |-> strip(found[i])]
    IN  IF Len(words) = 0
        THEN Result(FALSE, Msg(<<>>, FALSE, NoCommandGiven), None)
        ELSE Result(TRUE, NoMsg, List(words))

\* the Command object at index ix of the parser, as a value
Ref(ix) == [t |-> "Command", b |-> FALSE, n |-> ix, s |-> <<>>]

\* the loop of parse_args over the flag values parse_line returned: len()
\* of a value that is no str is a TypeError; the value is rewritten by the
\* arity of the command, not of the flag
RECURSIVE parse_args_flags(_, _)
parse_args_flags(self, kwargs) ==
    IF DOMAIN kwargs = {}
    THEN [res |-> Result(TRUE, NoMsg, None), cmd |-> self]
    ELSE LET flag == CHOOSE k \in DOMAIN kwargs : TRUE
             value == kwargs[flag]
             rest == [k \in DOMAIN kwargs \ {flag} |-> kwargs[k]]
             ix == self.flags[flag]
             l == PyLen(value)
             new == IF self.nargs = Opt
                    THEN IF l > 0 THEN Str(<<value.s[1]>>) ELSE Bool(TRUE)
                    ELSE IF self.nargs = PyInt(1)
                    THEN Str(<<value.s[1]>>)
                    ELSE IF self.nargs = PyInt(0)
                    THEN Bool(TRUE)
                    ELSE self.heap[ix].value
             self1 == [self EXCEPT
                         !.heap[ix].value = new,
                         !.attrs = [k \in DOMAIN self.attrs \cup {flag} |->
                                      IF k = flag THEN new
                                      ELSE self.attrs[k]]]
         IN  IF value.t \notin {"str", "list"}
             THEN [res |-> Raise("TypeError", NoMsg), cmd |-> self]
             ELSE IF flag \in self.flags_aliases
             THEN parse_args_flags(self, rest)
             ELSE IF self.nargs = PyInt(1) /\ l = 0
             THEN [res |-> Raise("IndexError", NoMsg), cmd |-> self]
             ELSE parse_args_flags(self1, rest)

\* Command.parse_args(args): ix is the index of the command in the parser
parse_args(self, args, ix) ==
    LET looped(f) ==
            IF f.res.raised
            THEN f
            ELSE [res |-> Result(TRUE, NoMsg, Ref(ix)), cmd |-> f.cmd]
        validated(r, positional, v) ==
            IF Truthy(self.validator) /\ v.raised
            THEN [res |-> v, cmd |-> r.cmd]
            ELSE IF Truthy(self.validator) /\ ~v.ok
            THEN [res |-> Result(FALSE, v.msg, List(positional)),
                  cmd |-> r.cmd]
            ELSE looped(parse_args_flags([r.cmd EXCEPT !.args = positional],
                                         r.res.value.flags))
        parsed(r) ==
            IF r.res.raised
            THEN r
            ELSE IF ~r.res.ok
            THEN [res |-> Result(FALSE, r.res.msg, List(args)),
                  cmd |-> r.cmd]
            ELSE validated(r, r.res.value.positional,
                           validate(List(r.res.value.positional),
                                    self.validator,
                                    <<self.name \o <<" ", "(arguments)">> >>))
    IN  parsed(parse_line(self, args))

\* Parser.__init__: no commands; commands maps a name or alias to the
\* index of its Command in heap
Parser == [commands |-> EmptyDict, commands_aliases |-> {}, heap |-> <<>>]

\* add_command giving every alias a Command object of its own
add_command_copies(self, name, nargs, validator, aliases) ==
    LET ix == Len(self.heap) + 1
        als == {aliases[j] : j \in 1..Len(aliases)}
        obj == NamedCommand(name, nargs, validator, aliases)
        first(k) == CHOOSE j \in 1..Len(aliases) : aliases[j] = k
    IN  [self EXCEPT
           !.heap = Append(self.heap, obj)
                       \o [j \in 1..Len(aliases) |-> obj],
           !.commands = [k \in DOMAIN self.commands \cup {name} \cup als |->
                           IF k = name THEN ix
                           ELSE IF k \in als THEN ix + first(k)
                           ELSE self.commands[k]],
           !.commands_aliases = self.commands_aliases \cup als]

\* Parser.add_command(name, nargs, validator, aliases)
add_command(self, name, nargs, validator, aliases) ==
    LET ix == Len(self.heap) + 1
        als == {aliases[j] : j \in 1..Len(aliases)}
        keys == {name} \cup als
    IN  [self EXCEPT
           !.heap = Append(self.heap,
                           NamedCommand(name, nargs, validator, aliases)),
           !.commands = [k \in DOMAIN self.commands \cup keys |->
                           IF k \in keys THEN ix ELSE self.commands[k]],
           !.commands_aliases = self.commands_aliases \cup als]

\* Parser.reset(): every command is reset
Parser_reset(self) ==
    [self EXCEPT
       !.heap = [i \in 1..Len(self.heap) |->
                   IF \E k \in DOMAIN self.commands : self.commands[k] = i
                   THEN Command_reset(self.heap[i])
                   ELSE self.heap[i]]]

\* Parser.parse(line): the length tested for no input is that of the
\* Result split returned, which is never 0; without words the value of the
\* Result is None, and None[0] is a TypeError
Parser_parse(self, raw) ==
    LET returned(ix, r) ==
            [res |-> r.res, parser |-> [self EXCEPT !.heap[ix] = r.cmd]]
        found(words, ix) ==
            returned(ix, parse_args(self.heap[ix], SliceFrom(words, 1), ix))
        named(words) ==
            IF words[1] \notin DOMAIN self.commands
            THEN [res |-> Result(FALSE, Msg(<<>>, FALSE, InvalidCommand),
                                 raw),
                  parser |-> self]
            ELSE found(words, self.commands[words[1]])
        tokenised(tokens) ==
            IF ResultLen = 0
            THEN [res |-> Result(FALSE, Msg(<<>>, FALSE, NoInputProvided),
                                 raw),
                  parser |-> self]
            ELSE IF tokens.value = None
            THEN [res |-> Raise("TypeError", NoMsg), parser |-> self]
            ELSE named(tokens.value.s)
    IN  tokenised(split(raw.s))

nc == <<"c">>
nopt == <<"o", "p", "t">>
nnope == <<"n", "o", "p", "e">>

\* a parser with two commands: cmd, alias c, takes any number of arguments
\* and has the flags F (arity 1, alias f) and Z (arity 0, default False);
\* opt takes at most one argument and has the flag F (arity 1)
Parser_setup ==
    LET p1 == add_command(Parser, CmdName, Star, None, <<nc>>)
        c1 == add_flag(p1.heap[1], nF, PyInt(1), None, None, <<nf>>).cmd
        c2 == add_flag(c1, nZ, PyInt(0), None, Bool(FALSE), <<>>).cmd
        p2 == add_command([p1 EXCEPT !.heap[1] = c2], nopt, Opt, None, <<>>)
        o1 == add_flag(p2.heap[2], nF, PyInt(1), None, None, <<>>).cmd
    IN  [p2 EXCEPT !.heap[2] = o1]

\* the words of the lines: the first word, and the others
CommandWords == {CmdName, nc, nopt, nnope}
ArgWords == {tF, tf, tZ, tx, tyz}
Separators == {<<Space>>, <<Space, Space>>}
BlankLines == {<<>>, <<Space>>, <<Space, Space>>, <<Tab>>}

\* (sep).join(words)
RECURSIVE Join(_, _)
Join(words, sep) ==
    IF Len(words) = 0
    THEN <<>>
    ELSE IF Len(words) = 1
    THEN words[1]
    ELSE words[1] \o sep \o Join(Tail(words), sep)

RawLines ==
    BlankLines \cup
    {Join(<<first>> \o rest, sep) :
        first \in CommandWords,
        rest \in SeqsUpTo(ArgWords, MaxWords),
        sep \in Separators}

InitParser ==
    /\ cmd = Parser_setup
    /\ line = None
    /\ call = NoCall
    /\ res = NoResult
    /\ pc = "read"

\* the caller obtains a raw line
ReadRaw(raw) ==
    /\ pc = "read"
    /\ line' = Str(raw)
    /\ pc' = "parse"
    /\ UNCHANGED <<cmd, call, res>>

\* parser.parse(line); an exception is caught nowhere and ends the run
Parse ==
    /\ pc = "parse"
    /\ LET returned(r) ==
               /\ res' = r.res
               /\ cmd' = r.parser
               /\ pc' = IF r.res.raised THEN "raised" ELSE "done"
       IN  returned(Parser_parse(cmd, line))
    /\ call' = Call("parse", <<>>, None, <<>>)
    /\ UNCHANGED line

\* the caller is through with the Result and turns to the next line
Again ==
    /\ pc = "done"
    /\ line' = None
    /\ call' = NoCall
    /\ res' = NoResult
    /\ pc' = "read"
    /\ UNCHANGED cmd

\* parser.reset() between two lines
ParserReset ==
    /\ pc = "read"
    /\ cmd' = Parser_reset(cmd)
    /\ UNCHANGED <<line, call, res, pc>>

NextParser ==
    \/ pc = "read" /\ \E raw \in RawLines : ReadRaw(raw)
    \/ Parse
    \/ Again
    \/ ParserReset

SpecParser == InitParser /\ [][NextParser]_vars

----------------------------------------------------------------------------
(* The value parsers on their own: each is applied to one token            *)

MaxChars == 4      \* most characters of a token made of ValidChars

\* the characters of the tokens handed to the integer parsers, and the
\* tokens handed to the boolean parsers
ValidChars == {"0", "4", "5", "6", "9", "-", "x"}
BoolWords ==
    {<<>>, <<"1">>, <<"0">>,
     <<"o", "n">>, <<"O", "n">>, <<"O", "N">>,
     <<"o", "f", "f">>, <<"O", "f", "f">>, <<"O", "F", "F">>,
     <<"t", "r", "u", "e">>, <<"T", "r", "u", "e">>, <<"T", "R", "U", "E">>,
     <<"f", "a", "l", "s", "e">>, <<"F", "a", "l", "s", "e">>,
     <<"F", "A", "L", "S", "E">>,
     <<"m", "a", "y", "b", "e">>}
ValidInputs == SeqsUpTo(ValidChars, MaxChars) \cup BoolWords

InitValid ==
    /\ cmd = None
    /\ line \in {Str(s) : s \in ValidInputs}
    /\ call = NoCall
    /\ res = NoResult
    /\ pc = "valid"

\* utils.parse_int(line)
UtilsParseInt ==
    /\ pc = "valid"
    /\ res' = parse_int(line)
    /\ call' = Call("utils.parse_int", <<>>, None, <<>>)
    /\ pc' = "done"
    /\ UNCHANGED <<cmd, line>>

\* utils.parse_int_in_range(50, 4096)(line)
UtilsParseIntInRange ==
    /\ pc = "valid"
    /\ res' = parse_int_in_range(IntRange.start, IntRange.end, line)
    /\ call' = Call("utils.parse_int_in_range", <<>>, None, <<>>)
    /\ pc' = "done"
    /\ UNCHANGED <<cmd, line>>

\* validate.parse_int(line, 50, 4096), as the validator 'int' applies it
\* once the range is bound by Validator.partial
ValidateParseInt ==
    /\ pc = "valid"
    /\ res' = validate_parse_int(line, PyInt(IntRange.start),
                                 PyInt(IntRange.end), <<>>)
    /\ call' = Call("validate.parse_int", <<>>, None, <<>>)
    /\ pc' = "done"
    /\ UNCHANGED <<cmd, line>>

\* validate.parse_bool(line)
ValidateParseBool ==
    /\ pc = "valid"
    /\ res' = validate_parse_bool(line, <<>>)
    /\ call' = Call("validate.parse_bool", <<>>, None, <<>>)
    /\ pc' = "done"
    /\ UNCHANGED <<cmd, line>>

\* utils.parse_bool(line)
UtilsParseBool ==
    /\ pc = "valid"
    /\ res' = utils_parse_bool(line)
    /\ call' = Call("utils.parse_bool", <<>>, None, <<>>)
    /\ pc' = "done"
    /\ UNCHANGED <<cmd, line>>

\* cli_parser.validate(line, validator) for a dict validator
Validate ==
    /\ pc = "valid"
    /\ \E d \in Mappings :
          /\ res' = validate(line, d, <<>>)
          /\ call' = Call("cli_parser.validate", d.s, None, <<>>)
    /\ pc' = "done"
    /\ UNCHANGED <<cmd, line>>

\* utils.validate(line, validator) for a dict validator
UtilsValidate ==
    /\ pc = "valid"
    /\ \E d \in Mappings :
          /\ res' = utils_validate(line, d, <<>>)
          /\ call' = Call("utils.validate", d.s, None, <<>>)
    /\ pc' = "done"
    /\ UNCHANGED <<cmd, line>>

NextValid ==
    \/ Validate
    \/ UtilsValidate
    \/ UtilsParseInt
    \/ UtilsParseIntInRange
    \/ ValidateParseInt
    \/ ValidateParseBool
    \/ UtilsParseBool

SpecValid == InitValid /\ [][NextValid]_vars

----------------------------------------------------------------------------
(* The flags of a command on their own: set_value, toggle, reset and the   *)
(* read of a value through the command                                     *)

nq == <<"q">>
nT == <<"T">>
nR == <<"R">>
t120 == <<"1", "2", "0">>
tnotanumber == <<"n", "o", "t", "a", "n", "u", "m", "b", "e", "r">>

\* a command with a flag of arity 0, one of arity "?" and two of arity 1
\* that parse an integer, the second within IntRange
FlagBed ==
    LET c1 == add_flag(Command(Star), nZ, PyInt(0), None, Bool(FALSE),
                       <<>>).cmd
        c2 == add_flag(c1, nQ, Opt, None, None, <<nq>>).cmd
        c3 == add_flag(c2, nT, PyInt(1), ParseInt, PyInt(3000), <<>>).cmd
    IN  add_flag(c3, nR, PyInt(1), ParseIntInRange, None, <<>>).cmd

FlagKeys == {nZ, nQ, nq, nT, nR}
ValueInputs ==
    {None, Str(t120), Str(tnotanumber), List(<<>>), List(<<tx, t120>>)}

\* the last call, with the value the flag had before it, and the call
\* before that one
Earlier(op, name, before, ok) ==
    [op |-> op, name |-> name, before |-> before, ok |-> ok]
NoEarlier == Earlier("", <<>>, None, FALSE)
FlagCall(op, name, arg, before, prev) ==
    [op |-> op, name |-> name, arg |-> arg, before |-> before, prev |-> prev]
Shift(c, r) == Earlier(c.op, c.name, c.before, r.ok)

InitFlag ==
    /\ cmd = FlagBed
    /\ line = None
    /\ call = FlagCall("", <<>>, None, None, NoEarlier)
    /\ res = NoResult
    /\ pc = "flag"

\* cmd.flags[name].set_value(value)
SetValue(name, value) ==
    /\ pc = "flag"
    /\ LET ix == cmd.flags[name]
           r == set_value(cmd.heap[ix], value, <<>>)
       IN  /\ res' = r.res
           /\ cmd' = [cmd EXCEPT !.heap[ix] = r.self]
           /\ call' = FlagCall("set_value", name, value, cmd.heap[ix].value,
                               Shift(call, res))
    /\ line' = value
    /\ UNCHANGED pc

\* cmd.flags[name].toggle()
Toggle(name) ==
    /\ pc = "flag"
    /\ LET ix == cmd.flags[name]
           r == toggle(cmd.heap[ix], <<>>)
       IN  /\ res' = r.res
           /\ cmd' = [cmd EXCEPT !.heap[ix] = r.self]
           /\ call' = FlagCall("toggle", name, None, cmd.heap[ix].value,
                               Shift(call, res))
    /\ line' = None
    /\ UNCHANGED pc

\* cmd.reset()
Reset ==
    /\ pc = "flag"
    /\ cmd' = Command_reset(cmd)
    /\ res' = Plain(None)
    /\ call' = FlagCall("reset", <<>>, None, None, Shift(call, res))
    /\ line' = None
    /\ UNCHANGED pc

\* cmd[name]
GetItem(name) ==
    /\ pc = "flag"
    /\ res' = Plain(getitem(cmd, name))
    /\ call' = FlagCall("getitem", name, None, getitem(cmd, name),
                        Shift(call, res))
    /\ line' = None
    /\ UNCHANGED <<cmd, pc>>

NextFlag ==
    \/ \E name \in FlagKeys, value \in ValueInputs : SetValue(name, value)
    \/ \E name \in FlagKeys : Toggle(name)
    \/ Reset
    \/ \E name \in FlagKeys \cup {nN} : GetItem(name)

SpecFlag == InitFlag /\ [][NextFlag]_vars

----------------------------------------------------------------------------
(* The variables of the CLI.  The class Variable is used by cli.py and     *)
(* defined in no file of the repository; its three methods follow the      *)
(* Flag Descriptor of the specification: set is validate(token, put=true), *)
(* read is extract() and toggle is toggle().                               *)

vstream == <<"s", "t", "r", "e", "a", "m">>
vmax_tokens == <<"m", "a", "x", "_", "t", "o", "k", "e", "n", "s">>
vtokens == <<"t", "o", "k", "e", "n", "s">>
vclipboard == <<"c", "l", "i", "p", "b", "o", "a", "r", "d">>
vclip == <<"c", "l", "i", "p">>
vnope == <<"n", "o", "p", "e">>
NoSuchVariable == "No such variable: var"

\* Variable(name, nargs, validator, default, aliases): the value starts unset
Variable(name, nargs, validator, default, aliases) ==
    [name |-> name, nargs |-> nargs, validator |-> validator,
     default |-> default, aliases |-> aliases, value |-> None]

\* Variable.set(value): the arity check of the single token, then the
\* validator; the transformed value is stored only when both pass
Variable_set(self, value) ==
    LET a == check_nargs(value, self.nargs, <<self.name>>)
        r == IF Truthy(self.validator)
             THEN validate(value, self.validator, <<self.name>>)
             ELSE Result(TRUE, NoMsg, value)
    IN  IF ~a.ok
        THEN [res |-> a, self |-> self]
        ELSE IF ~r.ok
        THEN [res |-> r, self |-> self]
        ELSE [res |-> Result(TRUE, NoMsg, r.value),
              self |-> [self EXCEPT !.value = r.value]]

\* Variable.toggle(): truthy -> false, else -> true, for arity 0 and "?"
Variable_toggle(self) ==
    IF self.nargs # Opt /\ self.nargs # PyInt(0)
    THEN [res |-> Result(FALSE, make_msg(CanToggleOnly, <<self.name>>),
                         self.nargs),
          self |-> self]
    ELSE LET v == IF Truthy(self.value) THEN Bool(FALSE) ELSE Bool(TRUE)
         IN  [res |-> Result(TRUE, NoMsg, v),
              self |-> [self EXCEPT !.value = v]]

\* Variable.read(): the current value, which is reset to unset; the callers
\* put the default in the place of None
Variable_read(self) ==
    [res |-> self.value, self |-> [self EXCEPT !.value = None]]

\* CLI.__init__: no variables; variables maps a name or alias to the index
\* of its Variable in heap
CLI == [variables |-> EmptyDict, heap |-> <<>>]

\* CLI.add_variable(name, nargs, validator, default, aliases)
add_variable(self, name, nargs, validator, default, aliases) ==
    LET var == Variable(name, nargs, validator, default, aliases)
        ix == Len(self.heap) + 1
        keys == {name} \cup {aliases[j] : j \in 1..Len(aliases)}
    IN  [self EXCEPT
           !.heap = Append(self.heap, var),
           !.variables = [k \in DOMAIN self.variables \cup keys |->
                            IF k \in keys THEN ix ELSE self.variables[k]]]

\* the variables of CLI.setup()
CLI_setup ==
    LET c1 == add_variable(CLI, vstream, PyInt(0), None, Bool(TRUE), <<>>)
        c2 == add_variable(c1, vmax_tokens, PyInt(1), ParseInt, PyInt(3000),
                           <<vtokens>>)
    IN  add_variable(c2, vclipboard, PyInt(0), None, Bool(FALSE), <<vclip>>)

\* CLI.get_variable(var)
get_variable(self, var) ==
    IF var \in DOMAIN self.variables
    THEN Result(TRUE, NoMsg, PyInt(self.variables[var]))
    ELSE Result(FALSE, Msg(<<>>, FALSE, NoSuchVariable), Str(var))

\* read_variable handing out what read() gave, None included
read_variable_raw(self, var) ==
    LET g == get_variable(self, var)
        ix == g.value.n
        r == Variable_read(self.heap[ix])
    IN  IF ~g.ok
        THEN [res |-> g, cli |-> self]
        ELSE [res |-> Result(TRUE, NoMsg, r.res),
              cli |-> [self EXCEPT !.heap[ix] = r.self]]

\* CLI.read_variable(var): the value read, or the default when it is None
read_variable(self, var) ==
    LET g == get_variable(self, var)
        ix == g.value.n
        r == Variable_read(self.heap[ix])
        value == IF r.res = None THEN self.heap[ix].default ELSE r.res
    IN  IF ~g.ok
        THEN [res |-> g, cli |-> self]
        ELSE [res |-> Result(TRUE, NoMsg, value),
              cli |-> [self EXCEPT !.heap[ix] = r.self]]

\* set_variable storing the token when the variable turned it down
set_variable_anyway(self, key, value) ==
    LET g == get_variable(self, key)
        ix == g.value.n
        r == IF value = None
             THEN Variable_toggle(self.heap[ix])
             ELSE Variable_set(self.heap[ix], value)
    IN  IF ~g.ok
        THEN [res |-> g, cli |-> self]
        ELSE [res |-> r.res,
              cli |-> [self EXCEPT
                         !.heap[ix] = IF r.res.ok THEN r.self
                                      ELSE [r.self EXCEPT !.value = value]]]

\* CLI.set_variable(key, value): toggles when no value is given; res is the
\* Result whose message is printed when it is a failure
set_variable(self, key, value) ==
    LET g == get_variable(self, key)
        ix == g.value.n
        r == IF value = None
             THEN Variable_toggle(self.heap[ix])
             ELSE Variable_set(self.heap[ix], value)
    IN  IF ~g.ok
        THEN [res |-> g, cli |-> self]
        ELSE [res |-> r.res, cli |-> [self EXCEPT !.heap[ix] = r.self]]

\* CLI.unset_variable(key)
unset_variable(self, key) ==
    LET g == get_variable(self, key)
        ix == g.value.n
    IN  IF ~g.ok
        THEN [res |-> g, cli |-> self]
        ELSE [res |-> Plain(None),
              cli |-> [self EXCEPT !.heap[ix].value = None]]

\* CLI.toggle_variable(key)
toggle_variable(self, key) ==
    LET g == get_variable(self, key)
        ix == g.value.n
        r == Variable_toggle(self.heap[ix])
    IN  IF ~g.ok
        THEN [res |-> g, cli |-> self]
        ELSE [res |-> r.res, cli |-> [self EXCEPT !.heap[ix] = r.self]]

VariableKeys == {vstream, vmax_tokens, vtokens, vclipboard, vclip, vnope}
SetInputs == {None, Str(t120), Str(tnotanumber)}

\* the value of the variable under key, None for a key that is none
ValueOf(self, key) ==
    IF key \in DOMAIN self.variables
    THEN self.heap[self.variables[key]].value
    ELSE None

InitVars ==
    /\ cmd = CLI_setup
    /\ line = None
    /\ call = FlagCall("", <<>>, None, None, NoEarlier)
    /\ res = NoResult
    /\ pc = "cli"

\* cli.set_variable(key, value)
SetVariable(key, value) ==
    /\ pc = "cli"
    /\ LET r == set_variable(cmd, key, value)
       IN  res' = r.res /\ cmd' = r.cli
    /\ call' = FlagCall("set_variable", key, value, ValueOf(cmd, key),
                        Shift(call, res))
    /\ line' = value
    /\ UNCHANGED pc

\* cli.read_variable(key); line keeps the value of the last set_variable
ReadVariable(key) ==
    /\ pc = "cli"
    /\ LET r == read_variable(cmd, key)
       IN  res' = r.res /\ cmd' = r.cli
    /\ call' = FlagCall("read_variable", key, None, ValueOf(cmd, key),
                        Shift(call, res))
    /\ UNCHANGED <<line, pc>>

\* cli.toggle_variable(key)
ToggleVariable(key) ==
    /\ pc = "cli"
    /\ LET r == toggle_variable(cmd, key)
       IN  res' = r.res /\ cmd' = r.cli
    /\ call' = FlagCall("toggle_variable", key, None, ValueOf(cmd, key),
                        Shift(call, res))
    /\ UNCHANGED <<line, pc>>

\* cli.unset_variable(key)
UnsetVariable(key) ==
    /\ pc = "cli"
    /\ LET r == unset_variable(cmd, key)
       IN  res' = r.res /\ cmd' = r.cli
    /\ call' = FlagCall("unset_variable", key, None, ValueOf(cmd, key),
                        Shift(call, res))
    /\ UNCHANGED <<line, pc>>

NextVars ==
    \/ \E key \in VariableKeys, value \in SetInputs : SetVariable(key, value)
    \/ \E key \in VariableKeys : ReadVariable(key)
    \/ \E key \in VariableKeys : ToggleVariable(key)
    \/ \E key \in VariableKeys : UnsetVariable(key)

SpecVars == InitVars /\ [][NextVars]_vars

----------------------------------------------------------------------------
(* Vocabulary of the properties *)

\* the call op has returned or raised
Done(op) == pc = "done" /\ call.op = op

Min(S) == CHOOSE x \in S : \A y \in S : x <= y
Max(S) == CHOOSE x \in S : \A y \in S : y <= x

\* the tokens before the first "--" of l, and those after it
HasDashDash(l) == \E j \in 1..Len(l) : l[j] = DashDash
BeforeDashDash(l) ==
    IF HasDashDash(l)
    THEN SubSeq(l, 1, Min({j \in 1..Len(l) : l[j] = DashDash}) - 1)
    ELSE l
AfterDashDash(l) ==
    IF HasDashDash(l)
    THEN SubSeq(l, Min({j \in 1..Len(l) : l[j] = DashDash}) + 1, Len(l))
    ELSE <<>>

\* the positions (1-based) of the flag markers of p, and the name of a marker
Markers(p) == {j \in 1..Len(p) : Head(p[j]) = Dash}
NameOf(tok) == Tail(tok)
Known(name) == name \in DOMAIN cmd.flags
FlagOf(name) == cmd.heap[cmd.flags[name]]
Unset == \A i \in 1..Len(cmd.heap) : cmd.heap[i].value = None

\* the tokens of p between marker j and the next marker (or the end)
RunAfter(p, j) ==
    LET later == {k \in Markers(p) : k > j}
    IN  SubSeq(p, j + 1, IF later = {} THEN Len(p) ELSE Min(later) - 1)

\* the run of tokens after marker j is one its flag's arity accepts
RunFits(p, j) ==
    LET n == FlagOf(NameOf(p[j])).nargs
        k == Len(RunAfter(p, j))
    IN  (n = PyInt(0) => k = 0) /\ (n = PyInt(1) => k = 1) /\ (n = Opt => k <= 1)

\* a line the ordering rule of the parser has nothing against: it starts
\* with a marker, every marker names a flag, no flag is named twice and the
\* run of every marker but the last fits its flag
WellFormed(p) ==
    /\ Markers(p) # {}
    /\ Min(Markers(p)) = 1
    /\ \A j \in Markers(p) : Known(NameOf(p[j]))
    /\ \A i, j \in Markers(p) :
          i # j => cmd.flags[NameOf(p[i])] # cmd.flags[NameOf(p[j])]
    /\ \A j \in Markers(p) \ {Max(Markers(p))} : RunFits(p, j)

FailsWith(text) == ~res.ok /\ ~res.raised /\ res.msg.text = text

FlagArities == {PyInt(0), PyInt(1), Opt}
CheckerOps == {"check_nargs", "utils.check_nargs", "validate.check_nargs"}

----------------------------------------------------------------------------
(* Properties *)

\* C1 as stated: parsing [p1, p2, -F, v] succeeds with positional
\* arguments [p1, p2] and F = v.
C1_LeadingAccepted ==
    (Done("parse_line") /\ line.s = <<tx, tyz, tF, tx>>)
        => /\ res.ok
           /\ res.value.positional = <<tx, tyz>>
           /\ res.value.flags = [k \in {nF} |-> Str(tx)]

\* C1 amended: when the first flag marker before "--" names a registered
\* flag and one or more tokens precede it, the parse fails with the
\* "Redundant arguments passed before flag" error of the command and sets
\* no flag; no line with tokens in front of its first marker is accepted.
C1_LeadingRejected ==
    Done("parse_line") =>
        LET p == BeforeDashDash(line.s)
        IN  /\ (/\ Markers(p) # {}
                /\ Min(Markers(p)) > 1
                /\ Known(NameOf(p[Min(Markers(p))])))
                   => /\ FailsWith(RedundantArguments)
                      /\ res.msg.ctx = <<CmdName>>
                      /\ Unset
            /\ (Markers(p) # {} /\ Min(Markers(p)) > 1)
                   => ~res.ok /\ ~res.raised /\ Unset

C1_Witness ==
    /\ Done("parse_line")
    /\ line.s = <<tx, tyz, tF, tx>>
    /\ FailsWith(RedundantArguments)

\* C2: parsing [-A, x, extra, -B, y] with arity-1 flags A and B fails with
\* a RedundantArguments error.
C2_ExtraBetweenFlags ==
    (Done("parse_line") /\ line.s = <<tF, tx, tyz, tB, tx>>)
        => FailsWith(RedundantArguments)

\* C3: parsing [-F, v, --, -notaflag] yields F = v and the positional
\* arguments [-notaflag]; every token after the first "--" is positional,
\* none of them is looked up as a flag, and only the markers before "--"
\* get a value.
C3_DashDash ==
    (Done("parse_line") /\ HasDashDash(line.s)) =>
        LET p == BeforeDashDash(line.s)
            after == AfterDashDash(line.s)
        IN  /\ line.s = <<tF, tx, DashDash, tN>>
                => /\ res.ok
                   /\ res.value.positional = <<tN>>
                   /\ res.value.flags = [k \in {nF} |-> Str(tx)]
            /\ res.ok
                => /\ IF Markers(p) = {}
                      THEN res.value.positional = p \o after
                      ELSE SubSeq(res.value.positional, 1, Len(after)) = after
                   /\ \A k \in DOMAIN res.value.flags :
                         \E j \in Markers(p) : FlagOf(NameOf(p[j])).name = k
            /\ FailsWith(NoSpecification)
                => \E j \in Markers(p) : res.msg.ctx = <<CmdName, NameOf(p[j])>>

C3_Witness ==
    /\ Done("parse_line")
    /\ line.s = <<tF, tx, DashDash, tN>>
    /\ res.ok
    /\ res.value.positional = <<tN>>

\* C4 as stated needs a flag of arity "+": add_flag(flagA, "+") registers
\* flagA with that arity.
C4_PlusFlagRegistered ==
    (call.op = "add_flag" /\ call.nargs = Plus)
        => /\ res.ok
           /\ Known(call.name)
           /\ FlagOf(call.name).nargs = Plus

\* C4 amended: add_flag raises for every arity other than 0, 1 and "?", so
\* no registered flag has arity "+" and none binds a run of two tokens.
C4_FlagArity ==
    /\ \A i \in 1..Len(cmd.heap) : cmd.heap[i].nargs \in FlagArities
    /\ (call.op = "add_flag" /\ call.nargs \notin FlagArities)
          => res.raised /\ pc = "raised"

C4_Witness ==
    /\ call.op = "add_flag"
    /\ call.nargs = Plus
    /\ res.raised
    /\ ~Known(call.name)

\* C5: for the last marker of a line, an arity-0 flag is set to true and
\* all the tokens after it are positional; a flag of arity 1 or "?" takes
\* the first token after it and the later ones are positional.
C5_LastFlag ==
    (Done("parse_line") /\ WellFormed(BeforeDashDash(line.s))) =>
        LET p == BeforeDashDash(line.s)
            last == Max(Markers(p))
            f == FlagOf(NameOf(p[last]))
            run == RunAfter(p, last)
            after == AfterDashDash(line.s)
        IN  /\ f.nargs = PyInt(0)
                => /\ res.ok
                   /\ f.value = Bool(TRUE)
                   /\ res.value.positional \in {after \o run, run \o after}
            /\ (f.nargs \in {PyInt(1), Opt} /\ Len(run) >= 1)
                => /\ res.ok
                   /\ f.value = Str(run[1])
                   /\ res.value.positional
                         \in {after \o Tail(run), Tail(run) \o after}

\* C6 as stated: an unregistered marker before "--" always gives the
\* NoSuchFlag error.
C6_UnknownAlwaysNoSuchFlag ==
    Done("parse_line") =>
        LET p == BeforeDashDash(line.s)
        IN  (\E j \in Markers(p) : ~Known(NameOf(p[j])))
                => FailsWith(NoSpecification)

\* C6 amended: a line with an unregistered marker before "--" fails: with
\* the NoSuchFlag error naming the first such marker, unless the first
\* marker of the line names a registered flag and has tokens before it,
\* when the RedundantArguments error comes first; a registered name or
\* alias is never the name of a NoSuchFlag error.
C6_NoSuchFlag ==
    Done("parse_line") =>
        LET p == BeforeDashDash(line.s)
            unknown == {j \in Markers(p) : ~Known(NameOf(p[j]))}
        IN  /\ unknown # {}
                => IF Min(Markers(p)) > 1 /\ Min(Markers(p)) < Min(unknown)
                   THEN FailsWith(RedundantArguments)
                   ELSE /\ FailsWith(NoSpecification)
                        /\ res.msg.ctx = <<CmdName, NameOf(p[Min(unknown)])>>
            /\ FailsWith(NoSpecification) => ~Known(res.msg.ctx[2])
            /\ unknown = {} => ~FailsWith(NoSpecification)

C6_Witness ==
    /\ Done("parse_line")
    /\ line.s = <<tf, tx, tN>>
    /\ FailsWith(NoSpecification)
    /\ res.msg.ctx = <<CmdName, nN>>

\* C7: a line that names the same flag at two markers (by its name twice,
\* or by its name and an alias) fails with the DuplicateFlag error.
C7_Duplicate ==
    Done("parse_line") =>
        LET p == BeforeDashDash(line.s)
        IN  (/\ Markers(p) # {}
             /\ Min(Markers(p)) = 1
             /\ \A j \in Markers(p) : Known(NameOf(p[j]))
             /\ \E i, j \in Markers(p) :
                   i # j /\ cmd.flags[NameOf(p[i])] = cmd.flags[NameOf(p[j])])
                => FailsWith(DuplicateFlag)

\* C8: with an integer arity n >= 0, each of the three arity checkers
\* accepts a token list of exactly n tokens and fails with an arity error
\* on every other length.
C8_ExactArity ==
    (pc = "done" /\ call.op \in CheckerOps
        /\ line.t = "list" /\ call.nargs.t = "int")
        => /\ res.ok <=> PyLen(line) = call.nargs.n
           /\ ~res.ok => res.msg.text = ExpectedN

C8_Witness ==
    /\ Done("check_nargs")
    /\ line.t = "list"
    /\ call.nargs = PyInt(2)
    /\ PyLen(line) = 3
    /\ ~res.ok

\* C9: with arity "+", each arity checker fails on the empty token list
\* and accepts every list of one or more tokens.
C9_OneOrMore ==
    (pc = "done" /\ call.op \in CheckerOps
        /\ line.t = "list" /\ call.nargs = Plus)
        => /\ res.ok <=> PyLen(line) >= 1
           /\ ~res.ok => res.msg.text \in ArityErrors

C9_Witness ==
    /\ Done("check_nargs")
    /\ line = List(<<>>)
    /\ call.nargs = Plus
    /\ ~res.ok

\* C10: with arity "?", each arity checker accepts token lists of length 0
\* or 1 and fails on every list of two or more tokens.
C10_ZeroOrOne ==
    (pc = "done" /\ call.op \in CheckerOps
        /\ line.t = "list" /\ call.nargs = Opt)
        => /\ res.ok <=> PyLen(line) <= 1
           /\ ~res.ok => res.msg.text \in ArityErrors

C10_Witness ==
    /\ Done("check_nargs")
    /\ line.t = "list"
    /\ PyLen(line) = 2
    /\ call.nargs = Opt
    /\ ~res.ok

\* the two keys name one variable of the CLI
SameVariable(j, k) ==
    /\ j \in DOMAIN cmd.variables
    /\ k \in DOMAIN cmd.variables
    /\ cmd.variables[j] = cmd.variables[k]
VariableOf(key) == cmd.heap[cmd.variables[key]]

----------------------------------------------------------------------------
(* Alias identity *)

\* the words of the raw line, when it has any
WordsOf(raw) == IF split(raw.s).ok THEN split(raw.s).value.s ELSE <<>>

\* the Command objects of the parser, one per registration
CommandsOf(p) == {p.heap[i] : i \in 1..Len(p.heap)}

\* the line names the command by w, then the flag F by the token tok with
\* one value
SetsFlagBy(w, tok) ==
    /\ line.t = "str"
    /\ Len(WordsOf(line)) = 3
    /\ WordsOf(line)[1] = w
    /\ WordsOf(line)[2] = tok
    /\ WordsOf(line)[3] \in PlainTokens

\* C12: in every state, for every command, the value read through any key
\* of its flags, alias or not, is the value read through the canonical name
\* of that flag; and when the line "cmd -f v" (cmd by either of its names)
\* has been parsed with success, v is read through F and through f
C12_AliasIdentity ==
    /\ \A c \in CommandsOf(cmd) : \A k \in DOMAIN c.flags :
          getitem(c, k) = getitem(c, c.heap[c.flags[k]].name)
    /\ \A w \in {CmdName, nc} :
          (pc = "done" /\ res.ok /\ SetsFlagBy(w, tf))
          => /\ getitem(cmd.heap[1], nF) = Str(WordsOf(line)[3])
             /\ getitem(cmd.heap[1], nf) = Str(WordsOf(line)[3])

\* the line "cmd -f x" has been parsed with success and x is read through
\* the alias f
C12_Witness ==
    /\ pc = "done"
    /\ res.ok
    /\ SetsFlagBy(CmdName, tf)
    /\ nf \in cmd.heap[1].flags_aliases
    /\ getitem(cmd.heap[1], nf) = Str(tx)

----------------------------------------------------------------------------
(* Toggle *)

\* the Flag object under a key of the command
FlagUnder(key) == cmd.heap[cmd.flags[key]]

\* the last call was toggle() on a flag that can be toggled
Toggled ==
    /\ call.op = "toggle"
    /\ FlagUnder(call.name).nargs \in {PyInt(0), Opt}

\* the call before the last was toggle() on the same flag, whose value was
\* a bool then
ToggledTwice ==
    /\ Toggled
    /\ call.prev.op = "toggle"
    /\ cmd.flags[call.prev.name] = cmd.flags[call.name]
    /\ call.prev.before.t = "bool"

\* C13: after two toggle() calls in a row on a flag of arity 0 or "?" whose
\* value was a bool, the flag has that bool again; after one toggle() on
\* such a flag the value is another than before
C13_ToggleTwice ==
    /\ ToggledTwice => FlagUnder(call.name).value = call.prev.before
    /\ Toggled => FlagUnder(call.name).value # call.before

\* two toggle() calls in a row took a flag from True back to True
C13_Witness ==
    /\ ToggledTwice
    /\ call.prev.before = Bool(TRUE)
    /\ call.before = Bool(FALSE)
    /\ FlagUnder(call.name).value = Bool(TRUE)

----------------------------------------------------------------------------
(* A failed set *)

\* the last call was set_variable on max_tokens, by its name or its alias
SetMaxTokens ==
    /\ call.op = "set_variable"
    /\ call.name \in {vmax_tokens, vtokens}

----------------------------------------------------------------------------
(* The value parsers *)

\* the parser returned a value: a Result that is ok, or a bare value
Accepted == ~res.raised /\ res.ok

\* the token is a decimal integer of the range [50, 4096)
InRange ==
    /\ ~int(line.s).raised
    /\ int(line.s).value.n >= 50
    /\ int(line.s).value.n < 4096

\* C15: the integer range validator for [50, 4096), utils.parse_int_in_range
\* and validate.parse_int alike, accepts a token exactly when the token is
\* an integer v with 50 <= v < 4096, and then gives the integer v
C15_RangeValidator ==
    (pc = "done"
       /\ call.op \in {"utils.parse_int_in_range", "validate.parse_int"})
    => /\ Accepted <=> InRange
       /\ Accepted => res.value = int(line.s).value

\* C16: the boolean validator, validate.parse_bool and utils.parse_bool
\* alike, gives True for on and true in any letter case and for 1, False
\* for off and false in any letter case, for 0 and for the empty token, and
\* fails on every other token
C16_BoolValidator ==
    (pc = "done" /\ call.op \in {"validate.parse_bool", "utils.parse_bool"})
    => LET w == lower(line.s)
           true == w \in {<<"o", "n">>, <<"t", "r", "u", "e">>, <<"1">>}
           false == w \in {<<>>, <<"o", "f", "f">>, <<"0">>,
                           <<"f", "a", "l", "s", "e">>}
       IN  /\ true => Accepted /\ res.value = Bool(TRUE)
           /\ false => Accepted /\ res.value = Bool(FALSE)
           /\ (~true /\ ~false) => ~Accepted

----------------------------------------------------------------------------
(* The parser *)

\* the last call was parser.parse(line), which returned or raised
Parsed == call.op = "parse" /\ pc \in {"done", "raised"}

\* the failure Result with the given text
FailedWith(r, text) == ~r.raised /\ ~r.ok /\ r.msg.text = text

\* the line is empty or made of blanks only
Blank(raw) == \A i \in 1..Len(raw.s) : raw.s[i] \in Whitespace

\* C17: parse of a line that is empty or made of whitespace only returns
\* the failure Result for no input
C17_NoInput ==
    (Parsed /\ Blank(line)) => FailedWith(res, NoInputProvided)

\* the names and aliases the setup registered commands under
RegisteredNames == {CmdName, nc, nopt}

\* the line with the name of the command in the place of its first word
Canonical(raw) == Str(Join(<<CmdName>> \o Tail(WordsOf(raw)), <<Space>>))

\* C18: parse of a line that has a first word fails with the error for an
\* unknown command exactly when that word is no registered name and no
\* registered alias; and parse of a line whose first word is the alias c
\* returns what parse of the same line under the name cmd returns in the
\* same state, the same Command object having parsed it
C18_NoSuchCommand ==
    [][Parse =>
         (Len(WordsOf(line)) > 0 =>
            /\ FailedWith(res', InvalidCommand)
                  <=> WordsOf(line)[1] \notin RegisteredNames
            /\ WordsOf(line)[1] = nc =>
                  LET same(p) == res' = p.res /\ cmd' = p.parser
                  IN  same(Parser_parse(cmd, Canonical(line))))]_vars

\* the line "c -F x" was parsed by the Command object of cmd, which has x
\* under F now
C18_Witness ==
    /\ Parsed
    /\ WordsOf(line) = <<nc, tF, tx>>
    /\ res.ok
    /\ res.value = Ref(cmd.commands[CmdName])
    /\ getitem(cmd.heap[cmd.commands[CmdName]], nF) = Str(tx)

\* the Command object the first word of the line names
Named == cmd.heap[cmd.commands[WordsOf(line)[1]]]

\* the flag of the named command under the name k is given in the line
Appears(k) ==
    \E i \in 2..Len(WordsOf(line)) :
        LET w == WordsOf(line)[i]
        IN  /\ w[1] = Dash
            /\ Tail(w) \in DOMAIN Named.flags
            /\ Named.flags[Tail(w)] = Named.flags[k]

\* the names of the flags of the named command, aliases left out
FlagNames == DOMAIN Named.flags \ Named.flags_aliases

\* the value of a flag of the named command, its default when it has none
ValueOrDefault(k) ==
    IF Named.heap[Named.flags[k]].value = None
    THEN Named.heap[Named.flags[k]].default
    ELSE Named.heap[Named.flags[k]].value

\* the tuple (name, positional arguments, flag values) of the named command
Triple ==
    [t |-> "tuple", b |-> FALSE, n |-> 3,
     s |-> <<Named.name, Named.args,
             [k \in FlagNames |-> ValueOrDefault(k)]>>]

\* C19: a parse that succeeds returns the tuple of the name of the command,
\* its positional arguments and the map that has for every flag of the
\* command its value, the default for a flag that has none
C19_Triple ==
    (Parsed /\ res.ok) => res.value.t = "tuple" /\ res.value = Triple

\* C20: after a parse that succeeds, every flag of the command that the
\* line does not give is reported with its default, whatever the lines
\* parsed before gave
C20_NoLeak ==
    (Parsed /\ res.ok) =>
        \A k \in FlagNames :
            ~Appears(k) =>
                /\ Named.attrs[k] = Named.heap[Named.flags[k]].default
                /\ ValueOrDefault(k) = Named.heap[Named.flags[k]].default

----------------------------------------------------------------------------
(* Failures *)

\* C21: every parse of a line returns a Result, a success or a failure
\* that has a message; no line makes parse raise
C21_NeverRaises ==
    Parsed => /\ ~res.raised
              /\ res.ok \/ res.msg.text # ""

\* the texts of the failures of Flag.set_value, and of the arity check of
\* the command
SetValueErrors == {AtMostOne, ExpectedNone, AtLeastOne}
CommandArityErrors == {NoArgumentsPassed, ZeroOrOne, ExpectedN}

\* C22: a failure that set_value of a flag produced during a parse has the
\* context command.flag in front of its message, and a failure of the
\* arity check of the command has the context command
C22_Context ==
    (Parsed /\ ~res.ok /\ ~res.raised
        /\ Len(WordsOf(line)) > 0 /\ WordsOf(line)[1] \in RegisteredNames)
    => /\ res.msg.text \in SetValueErrors
            => /\ res.msg.colon
               /\ Len(res.msg.ctx) = 2
               /\ res.msg.ctx[1] = Named.name
               /\ res.msg.ctx[2] \in FlagNames
       /\ res.msg.text \in CommandArityErrors
            => res.msg.colon /\ res.msg.ctx = <<Named.name>>

\* C23: a dict validator accepts a token exactly when the token is a key of
\* the dict, and the value of the success is the value of the key, also a
\* false, zero or empty one; a token that is no key is a failure
C23_Mapping ==
    \A d \in Mappings :
        ((Done("cli_parser.validate") \/ Done("utils.validate"))
            /\ call.name = d.s)
        => IF line.s \in DOMAIN items(d)
           THEN ~res.raised /\ res.ok /\ res.value = items(d)[line.s]
           ELSE ~res.raised /\ ~res.ok

----------------------------------------------------------------------------
(* Lines with the markers -X, -no_X and -toggle_X *)

tno_Z == <<"-", "n", "o", "_", "Z">>
tno_Q == <<"-", "n", "o", "_", "Q">>
ttoggle_Z == <<"-", "t", "o", "g", "g", "l", "e", "_", "Z">>
ttoggle_Q == <<"-", "t", "o", "g", "g", "l", "e", "_", "Q">>
PrefixTokens == {tZ, tQ, tno_Z, tno_Q, ttoggle_Z, ttoggle_Q, tx}
PrefixLines == SeqsUpTo(PrefixTokens, MaxLen)

\* the caller obtains a line of such tokens
ReadPrefixed(l) ==
    /\ pc = "read"
    /\ line' = List(l)
    /\ pc' = "parse"
    /\ UNCHANGED <<cmd, call, res>>

NextPrefix ==
    \/ pc = "read" /\ \E l \in PrefixLines : ReadPrefixed(l)
    \/ ParseLine

SpecPrefix == Init /\ [][NextPrefix]_vars

\* the flag a marker means once no_ or toggle_ is taken from its name
NoPrefix == <<"n", "o", "_">>
TogglePrefix == <<"t", "o", "g", "g", "l", "e", "_">>
HasPrefix(name, p) == Len(name) > Len(p) /\ SubSeq(name, 1, Len(p)) = p
Stripped(name) ==
    IF HasPrefix(name, NoPrefix)
    THEN SubSeq(name, Len(NoPrefix) + 1, Len(name))
    ELSE IF HasPrefix(name, TogglePrefix)
    THEN SubSeq(name, Len(TogglePrefix) + 1, Len(name))
    ELSE name

\* C24: on a line that is one marker of a registered flag X of arity 0 or
\* "?", -X sets X true, -no_X sets X false and -toggle_X flips X (unset
\* becomes true); and no marker whose stripped name is registered gives the
\* error for an unknown flag
C24_Prefixes ==
    (Done("parse_line") /\ Len(line.s) = 1 /\ 1 \in Markers(line.s)
        /\ Known(Stripped(NameOf(line.s[1]))))
    => /\ ~res.raised /\ res.ok
       /\ FlagOf(Stripped(NameOf(line.s[1]))).value =
              Bool(~HasPrefix(NameOf(line.s[1]), NoPrefix))

\* C25: set_variable of a registered variable without a value is a failure
\* that leaves the stored value as it was; it toggles nothing
C25_NoValue ==
    (call.op = "set_variable" /\ call.arg = None
        /\ call.name \in DOMAIN cmd.variables)
    => /\ ~res.ok
       /\ ValueOf(cmd, call.name) = call.before

\* the tokens of the line that are scanned for markers
Scanned(p) == IF HasDashDash(p) THEN BeforeDashDash(p) ELSE p

\* the line has two or more markers and passes the scan: it starts with a
\* marker, every marker names a flag and no flag is named twice
TwoOrMore(p) ==
    /\ Cardinality(Markers(p)) >= 2
    /\ Min(Markers(p)) = 1
    /\ \A j \in Markers(p) : Known(NameOf(p[j]))
    /\ \A i, j \in Markers(p) :
          i # j => cmd.flags[NameOf(p[i])] # cmd.flags[NameOf(p[j])]

\* C26: the tokens between a marker that is not the last and the next
\* marker are the arguments of its flag and are checked against its arity:
\* a run the arity does not accept is an arity failure, and on a success
\* the flag holds the one token of its run, or true for an empty run
C26_InnerRuns ==
    (Done("parse_line") /\ TwoOrMore(Scanned(line.s)))
    => LET p == Scanned(line.s)
           inner == Markers(p) \ {Max(Markers(p))}
       IN  /\ ~res.raised
           /\ (\E j \in inner : ~RunFits(p, j))
                 => ~res.ok /\ res.msg.text \in SetValueErrors
           /\ res.ok
                 => \A j \in inner :
                       /\ RunFits(p, j)
                       /\ FlagOf(NameOf(p[j])).value =
                             IF RunAfter(p, j) = <<>>
                             THEN Bool(TRUE)
                             ELSE Str(RunAfter(p, j)[1])

----------------------------------------------------------------------------
(* Lines through a parser whose flags have validators *)

tT == <<"-", "T">>

\* a parser with two commands: cmd takes any number of arguments and has
\* the flags T (arity 1, parsed as an integer), Z (arity 0) and Q (arity
\* "?"); opt takes at most one argument and has the flags T and Q
Parser_validated ==
    LET p1 == add_command(Parser, CmdName, Star, None, <<>>)
        c1 == add_flag(p1.heap[1], nT, PyInt(1), ParseInt, PyInt(3000),
                       <<>>).cmd
        c2 == add_flag(c1, nZ, PyInt(0), None, Bool(FALSE), <<>>).cmd
        c3 == add_flag(c2, nQ, Opt, None, None, <<>>).cmd
        p2 == add_command([p1 EXCEPT !.heap[1] = c3], nopt, Opt, None, <<>>)
        o1 == add_flag(p2.heap[2], nT, PyInt(1), ParseInt, PyInt(3000),
                       <<>>).cmd
        o2 == add_flag(o1, nQ, Opt, None, None, <<>>).cmd
    IN  [p2 EXCEPT !.heap[2] = o2]

ValidatedWords == {tT, tZ, tQ, t120, tx}
ValidatedLines ==
    {Join(<<first>> \o rest, <<Space>>) :
        first \in {CmdName, nopt},
        rest \in SeqsUpTo(ValidatedWords, MaxWords)}

InitFrame ==
    /\ cmd = Parser_validated
    /\ line = None
    /\ call = NoCall
    /\ res = NoResult
    /\ pc = "read"

\* the caller obtains a raw line
ReadValidated(raw) ==
    /\ pc = "read"
    /\ line' = Str(raw)
    /\ pc' = "parse"
    /\ UNCHANGED <<cmd, call, res>>

NextFrame ==
    \/ pc = "read" /\ \E raw \in ValidatedLines : ReadValidated(raw)
    \/ Parse
    \/ Again

SpecFrame == InitFrame /\ [][NextFrame]_vars

\* the tokens that follow the last marker of w
LastRun(w) == SubSeq(w, Max(Markers(w)) + 1, Len(w))

\* the arity of the flag f and its validator accept what follows the last
\* marker of w: a flag of arity 1 needs a token, and a flag that takes a
\* token and parses an integer needs digits
Accepts(f, w) ==
    /\ f.nargs = PyInt(1) => LastRun(w) # <<>>
    /\ (f.validator = ParseInt /\ f.nargs # PyInt(0) /\ LastRun(w) # <<>>)
          => AllDigits(LastRun(w)[1])

\* the line of words names the command c and one of its markers names the
\* flag i of c, whose arity and validator accept what the marker is given
SetBy(words, c, i) ==
    /\ Len(words) > 0
    /\ words[1] \in DOMAIN cmd.commands
    /\ cmd.commands[words[1]] = c
    /\ LET w == Scanned(Tail(words))
       IN  /\ Markers(w) # {}
           /\ NameOf(w[Max(Markers(w))]) \in DOMAIN cmd.heap[c].flags
           /\ cmd.heap[c].flags[NameOf(w[Max(Markers(w))])] = i
           /\ Accepts(cmd.heap[c].heap[i], w)

\* C27: a parse changes the value of a flag only when the line names the
\* flag and the arity check and the validator of that flag succeeded; a
\* flag whose validation fails and a flag the line does not name keep
\* their values
C27_Frame ==
    [][Parse =>
        LET kept(words) ==
                \A c \in 1..Len(cmd.heap) :
                    \A i \in 1..Len(cmd.heap[c].heap) :
                        cmd'.heap[c].heap[i].value # cmd.heap[c].heap[i].value
                            => SetBy(words, c, i)
        IN  kept(WordsOf(line))]_vars

\* a parse failed in the validator of T after an earlier line gave Q a
\* value: T is still unset and Q still has its value
C27_Witness ==
    /\ Parsed
    /\ FailedWith(res, CallableFailed)
    /\ WordsOf(line) = <<CmdName, tT, tx>>
    /\ cmd.heap[1].heap[cmd.heap[1].flags[nT]].value = None
    /\ cmd.heap[1].heap[cmd.heap[1].flags[nQ]].value = Str(tx)

\* what setup registered in a command: its name, arity, validator and
\* aliases, the names and aliases of its flags with the descriptor each one
\* resolves to, and the arity, validator and default of every flag
CommandRegistry(c) ==
    [name |-> c.name, nargs |-> c.nargs, validator |-> c.validator,
     aliases |-> c.aliases, flags |-> c.flags,
     flags_aliases |-> c.flags_aliases,
     descriptors |-> [i \in 1..Len(c.heap) |->
                        [name |-> c.heap[i].name,
                         nargs |-> c.heap[i].nargs,
                         validator |-> c.heap[i].validator,
                         default |-> c.heap[i].default,
                         aliases |-> c.heap[i].aliases]]]

\* what setup registered in a parser: the names and aliases of the commands
\* with the descriptor each one resolves to, and the registry of each
Registry(p) ==
    [commands |-> p.commands, commands_aliases |-> p.commands_aliases,
     descriptors |-> [c \in 1..Len(p.heap) |-> CommandRegistry(p.heap[c])]]

\* C28: whatever lines were parsed, the registry of the parser is the one
\* setup built
C28_Registry == Registry(cmd) = Registry(Parser_setup)

\* a parse has succeeded and the parser is not in the state setup left
C28_Witness ==
    /\ Parsed
    /\ res.ok
    /\ cmd # Parser_setup

\* C29: toggle() on a flag whose arity is neither 0 nor "?" gives the
\* failure Result and leaves the value as it was; on a flag of arity 0 or
\* "?" it stores False when the value was truthy and True when it was not
C29_Toggle ==
    call.op = "toggle"
    => IF FlagUnder(call.name).nargs \notin {PyInt(0), Opt}
       THEN /\ FailsWith(CanToggleOnly)
            /\ FlagUnder(call.name).value = call.before
       ELSE FlagUnder(call.name).value = Bool(~Truthy(call.before))

\* toggle() on the flag T of arity 1 failed and T still holds 120
C29_Witness ==
    /\ call.op = "toggle"
    /\ call.name = nT
    /\ call.before = PyInt(120)
    /\ FailsWith(CanToggleOnly)
    /\ FlagUnder(nT).value = PyInt(120)

\* the tokens of p at the positions in S that are k or later, in the order
\* of p
RECURSIVE Pick(_, _, _)
Pick(p, S, k) ==
    IF k > Len(p)
    THEN <<>>
    ELSE (IF k \in S THEN <<p[k]>> ELSE <<>>) \o Pick(p, S, k + 1)

\* the positions of the tokens of p a flag takes as its argument: the token
\* right after a marker whose flag takes one
Consumed(p) ==
    {j + 1 : j \in {m \in Markers(p) :
                      /\ m + 1 <= Len(p)
                      /\ m + 1 \notin Markers(p)
                      /\ FlagOf(NameOf(p[m])).nargs # PyInt(0)}}

\* the positions of the line l whose tokens are left to the positional
\* arguments: not a marker before the first "--", not the argument of a
\* flag and not the first "--"
LeftOver(l) ==
    LET p == BeforeDashDash(l)
    IN  (1..Len(l)) \ (Markers(p) \cup Consumed(p) \cup {Len(p) + 1})

\* C30: after a successful parse_line the positional arguments are the
\* tokens of the line that are no marker, no argument of a flag and not the
\* first "--", each once and in the order of the line
C30_Conservation ==
    (Done("parse_line") /\ res.ok)
        => res.value.positional = Pick(line.s, LeftOver(line.s), 1)

====
